---- MODULE Spec2Model ----
(***************************************************************************)
(* UTXO ledger of the blockchain indexer: the models-based                 *)
(* BlockchainService (processBlock / rollbackToHeight) on top of           *)
(* BlockModel, TransactionModel and OutputModel, and the PostgreSQL        *)
(* tables they write (blocks, transactions, outputs, address_balances).    *)
(*                                                                         *)
(* The database is modelled with row versions: every row carries xmin (the *)
(* transaction that wrote it, or Committed) and xmax (the open transaction *)
(* that deleted or superseded it, or None).  A statement of an open        *)
(* transaction sees the committed rows and its own writes (READ COMMITTED),*)
(* waits for a row another open transaction has written, and an INSERT     *)
(* waits for / fails on a row with the same unique key.                    *)
(* The column address_balances.last_updated_height is written by the code  *)
(* and read by nothing; it is left out.                                    *)
(*                                                                         *)
(* Spec:         the requests served one at a time                         *)
(* SpecValidate: validateBlock applied to any block                        *)
(* SpecBlockId:  calculateBlockId applied to two argument pairs             *)
(* SpecDepth:    rollback requests on ledgers of every height up to        *)
(*               MAX_ROLLBACK_BLOCKS + 1                                   *)
(* SpecRace:     processBlock calls interleaved at every await             *)
(* SpecConc:     processBlock and rollbackToHeight calls interleaved       *)
(* SpecRead:     reads of one call during the unit of work of another      *)
(* SpecController: POST /blocks answered by the controller, with ids that  *)
(*               spell validation codes                                    *)
(*                                                                         *)
(* The repository-based BlockchainService (processBlock / rollback on top  *)
(* of BlockchainRepository and the tables blocks, transactions, outputs,   *)
(* balances) is modelled after it:                                         *)
(* SpecRepo:     its requests served one at a time                         *)
(* SpecBalance:  validateBlockTransactions applied to any block and table  *)
(* SpecTall:     its rollback on ledgers of height 2000 and 2002           *)
(***************************************************************************)
EXTENDS Integers, Sequences, FiniteSets, TLC

\* ------------------------------------------------------------------------
\* Bounds and the sets the inputs are drawn from
\* ------------------------------------------------------------------------
MaxHeight == 2
MaxRollbacks == 1

TxIds == {"t1", "t2", "t3"}
Addresses == {"a", "b"}
Values == {1, 2}
Workers == {"w1", "w2", "w3"}

Committed == "committed"
None == "none"
NULL == "NULL"
Pool == "pool"
OK == "OK"

VARIABLES
  db,      \* the four tables, as sets of row versions (SpecRepo,
           \* SpecTall: the tables of the repository, as sets of rows)
  last,    \* the finished call whose reply is due, and how it ended
  chain,   \* the blocks accepted and not rolled back, in height order
  rollbacks, \* the rollbacks performed so far
  call,    \* per worker: the call it is executing and where it stands
  db0,     \* the ledger the concurrent calls started from
  vin,     \* the arguments handed to validateBlock (SpecBlockId: the two
           \* argument pairs handed to calculateBlockId)
  vout,    \* what validateBlock returned ("none" before the call)
  hout,    \* how validateBlockHeight ended ("none" before the call)
  ret,     \* the value the finished service call returned (SpecRepo,
           \* SpecBalance, SpecTall: the error it threw; SpecController:
           \* the controller's reply)
  undone   \* the ids of the transactions the last rollback removed, kept
           \* until the request after it is answered

\* ------------------------------------------------------------------------
\* Generic helpers
\* ------------------------------------------------------------------------
RECURSIVE SeqSum(_)
SeqSum(s) == IF s = <<>> THEN 0 ELSE Head(s) + SeqSum(Tail(s))

\* the one element of a one-element set: The({F(x) : x \in {e}}) is F(e),
\* with e evaluated once
The(S) == CHOOSE x \in S : TRUE

RECURSIVE Flatten(_)
Flatten(ss) == IF ss = <<>> THEN <<>> ELSE Head(ss) \o Flatten(Tail(ss))

\* ------------------------------------------------------------------------
\* src/src/utils/blockhain.util.ts
\* ------------------------------------------------------------------------
RECURSIVE JoinIds(_)
JoinIds(transactions) ==
  IF transactions = <<>> THEN ""
  ELSE Head(transactions).id \o JoinIds(Tail(transactions))

\* The SHA-256 digest is taken as an injective tag of the hashed string.
Sha256Hex(input) == "#" \o input

\* calculateBlockId that hashes the transaction ids only
calculateBlockIdOfIds(height, transactions) ==
  Sha256Hex(JoinIds(transactions))

calculateBlockId(height, transactions) ==
  Sha256Hex(ToString(height) \o JoinIds(transactions))

validateBlockId(block) ==
  block.id = calculateBlockId(block.height, block.transactions)

RECURSIVE OutputValueSum(_)
OutputValueSum(outputs) ==
  IF outputs = <<>> THEN 0
  ELSE Head(outputs).value + OutputValueSum(Tail(outputs))

RECURSIVE TotalOutputValue(_)
TotalOutputValue(transactions) ==
  IF transactions = <<>> THEN 0
  ELSE OutputValueSum(Head(transactions).outputs)
         + TotalOutputValue(Tail(transactions))

calculateTransactionValues(transactions) ==
  [totalInputValue |-> 0, totalOutputValue |-> TotalOutputValue(transactions)]

RECURSIVE RegularOutputValue(_)
RegularOutputValue(transactions) ==
  IF transactions = <<>> THEN 0
  ELSE (IF Len(Head(transactions).inputs) # 0
          THEN OutputValueSum(Head(transactions).outputs) ELSE 0)
         + RegularOutputValue(Tail(transactions))

\* the balance section with the mixed branch comparing the inputs with the
\* outputs of all transactions, coinbase included
BalanceCheckAllOutputs(block, inputValidation) ==
  LET totalOutputValue ==
        calculateTransactionValues(block.transactions).totalOutputValue
      hasCoinbaseTransaction ==
        \E i \in 1..Len(block.transactions) :
           Len(block.transactions[i].inputs) = 0
      regularOutputValue == RegularOutputValue(block.transactions)
  IN IF hasCoinbaseTransaction /\ regularOutputValue = 0
       THEN IF inputValidation.totalInputValue # 0
              THEN "INVALID_BALANCE" ELSE OK
     ELSE IF inputValidation.totalInputValue # totalOutputValue
              THEN "INVALID_BALANCE" ELSE OK

\* The balance section of validateBlock (coinbase-only, no coinbase, mixed)
\* BalanceCheck that rejects a block without a coinbase transaction whose
\* inputs are worth nothing (`totalInputValue === 0 ||` in the second branch)
BalanceCheckPositiveInputs(block, inputValidation) ==
  LET totalOutputValue ==
        calculateTransactionValues(block.transactions).totalOutputValue
      hasCoinbaseTransaction ==
        \E i \in 1..Len(block.transactions) :
           Len(block.transactions[i].inputs) = 0
      regularInputValue == inputValidation.totalInputValue
      regularOutputValue == RegularOutputValue(block.transactions)
  IN IF hasCoinbaseTransaction /\ regularOutputValue = 0
       THEN IF inputValidation.totalInputValue # 0
              THEN "INVALID_BALANCE" ELSE OK
     ELSE IF ~hasCoinbaseTransaction
       THEN IF \/ inputValidation.totalInputValue = 0
               \/ inputValidation.totalInputValue # totalOutputValue
              THEN "INVALID_BALANCE" ELSE OK
     ELSE IF regularInputValue # regularOutputValue
              THEN "INVALID_BALANCE" ELSE OK

BalanceCheck(block, inputValidation) ==
  LET totalOutputValue ==
        calculateTransactionValues(block.transactions).totalOutputValue
      hasCoinbaseTransaction ==
        \E i \in 1..Len(block.transactions) :
           Len(block.transactions[i].inputs) = 0
      regularInputValue == inputValidation.totalInputValue
      regularOutputValue == RegularOutputValue(block.transactions)
  IN IF hasCoinbaseTransaction /\ regularOutputValue = 0
       THEN IF inputValidation.totalInputValue # 0
              THEN "INVALID_BALANCE" ELSE OK
     ELSE IF ~hasCoinbaseTransaction
       THEN IF inputValidation.totalInputValue # totalOutputValue
              THEN "INVALID_BALANCE" ELSE OK
     ELSE IF regularInputValue # regularOutputValue
              THEN "INVALID_BALANCE" ELSE OK

\* validateBlock with the height test `block.height <= currentHeight`
validateBlockAnyHigher(block, currentHeight, inputValidation) ==
  IF ~validateBlockId(block) THEN "INVALID_BLOCK_ID"
  ELSE IF block.height <= currentHeight THEN "INVALID_HEIGHT"
  ELSE IF ~inputValidation.isValid THEN "INVALID_INPUTS"
  ELSE BalanceCheck(block, inputValidation)

\* validateBlock with the height test moved before the id test
validateBlockHeightFirst(block, currentHeight, inputValidation) ==
  IF block.height # currentHeight + 1 THEN "INVALID_HEIGHT"
  ELSE IF ~validateBlockId(block) THEN "INVALID_BLOCK_ID"
  ELSE IF ~inputValidation.isValid THEN "INVALID_INPUTS"
  ELSE BalanceCheck(block, inputValidation)

\* validateBlock with the height test `block.height < currentHeight`
validateBlockBelowOnly(block, currentHeight, inputValidation) ==
  IF ~validateBlockId(block) THEN "INVALID_BLOCK_ID"
  ELSE IF block.height < currentHeight THEN "INVALID_HEIGHT"
  ELSE IF ~inputValidation.isValid THEN "INVALID_INPUTS"
  ELSE BalanceCheck(block, inputValidation)

validateBlock(block, currentHeight, inputValidation) ==
  IF ~validateBlockId(block) THEN "INVALID_BLOCK_ID"
  ELSE IF block.height # currentHeight + 1 THEN "INVALID_HEIGHT"
  ELSE IF ~inputValidation.isValid THEN "INVALID_INPUTS"
  ELSE BalanceCheck(block, inputValidation)

\* ------------------------------------------------------------------------
\* src/src/services/validation.ts
\* ------------------------------------------------------------------------
\* throws ValidationError unless block.height is currentHeight + 1
validateBlockHeight(block, currentHeight) ==
  LET expectedHeight == currentHeight + 1
  IN IF block.height # expectedHeight THEN "ValidationError" ELSE OK

calculateBlockHash(block) ==
  LET transactionIds == JoinIds(block.transactions)
  IN Sha256Hex(ToString(block.height) \o transactionIds)

\* throws ValidationError unless block.id is the computed hash
validateBlockHash(block) ==
  IF block.id # calculateBlockHash(block) THEN "ValidationError" ELSE OK

\* ------------------------------------------------------------------------
\* The database: row versions, visibility, statements
\* ------------------------------------------------------------------------
EmptyDb == [blocks |-> {}, transactions |-> {}, outputs |-> {},
            address_balances |-> {}]

\* A row is visible to transaction w if it is committed or w's own, and w has
\* not deleted or superseded it.  Pool sees the committed rows.
Visible(r, w) == (r.xmin = Committed \/ r.xmin = w) /\ r.xmax # w

\* Another open transaction holds the row (wrote or deleted it).
LockedByOther(r, w) ==
  \/ r.xmin \notin {Committed, w}
  \/ r.xmin = Committed /\ r.xmax \notin {None, w}

\* UPDATE: the targets are replaced by their new values, written by w
UpdateRows(table, targets, updated, w) ==
  (table \ targets)
    \cup {[r EXCEPT !.xmax = w] : r \in {t \in targets : t.xmin = Committed}}
    \cup {[r EXCEPT !.xmin = w, !.xmax = None] : r \in updated}

DeleteRows(table, targets, w) ==
  (table \ targets)
    \cup {[r EXCEPT !.xmax = w] : r \in {t \in targets : t.xmin = Committed}}

CommitTable(table, w) ==
  {IF r.xmin = w THEN [r EXCEPT !.xmin = Committed] ELSE r :
     r \in {t \in table : t.xmax # w}}

AbortTable(table, w) ==
  {[r EXCEPT !.xmax = IF r.xmax = w THEN None ELSE r.xmax] :
     r \in {t \in table : t.xmin # w}}

\* client.query('COMMIT')
CommitTx(d, w) ==
  [blocks |-> CommitTable(d.blocks, w),
   transactions |-> CommitTable(d.transactions, w),
   outputs |-> CommitTable(d.outputs, w),
   address_balances |-> CommitTable(d.address_balances, w)]

\* client.query('ROLLBACK')
AbortTx(d, w) ==
  [blocks |-> AbortTable(d.blocks, w),
   transactions |-> AbortTable(d.transactions, w),
   outputs |-> AbortTable(d.outputs, w),
   address_balances |-> AbortTable(d.address_balances, w)]

\* The result of one statement: the tables, the rows a SELECT returned (kept
\* by the caller for its next statement) and how the statement ended.
Ok(d, sel) == [db |-> d, sel |-> sel, status |-> "ok"]
Err(d) == [db |-> d, sel |-> {}, status |-> "error"]
Wait(d, sel) == [db |-> d, sel |-> sel, status |-> "wait"]

\* INSERT of one row under a unique constraint: `same` are the stored row
\* versions with the same unique key.  A live row fails the statement, a row
\* another open transaction wrote makes it wait for that transaction.
\* INSERT into a table that has no unique constraint
InsertUnconstrained(d, same, newDb, w) == Ok(newDb, {})

InsertUnique(d, same, newDb, w) ==
  IF \E r \in same : Visible(r, w) /\ ~LockedByOther(r, w) THEN Err(d)
  ELSE IF \E r \in same : LockedByOther(r, w) THEN Wait(d, {})
  ELSE Ok(newDb, {})

BlockRow(id, height, w) ==
  [id |-> id, height |-> height, xmin |-> w, xmax |-> None]

TransactionRow(id, block, w) ==
  [id |-> id, block_id |-> block.id, block_height |-> block.height,
   xmin |-> w, xmax |-> None]

OutputRow(txId, i, output, height, w) ==
  [transaction_id |-> txId, output_index |-> i, address |-> output.address,
   value |-> output.value, is_spent |-> FALSE,
   spent_in_transaction_id |-> NULL, block_height |-> height,
   xmin |-> w, xmax |-> None]

BalanceRow(address, balance, w) ==
  [address |-> address, balance |-> balance, xmin |-> w, xmax |-> None]

\* ------------------------------------------------------------------------
\* src/src/models/index.ts (OutputModel)
\* ------------------------------------------------------------------------
\* INSERT INTO address_balances ... ON CONFLICT (address) DO UPDATE
\*   SET balance = address_balances.balance + $2
AddBalance(r, valueChange) == [r EXCEPT !.balance = r.balance + valueChange]

updateAddressBalanceWithClient(d, w, address, valueChange) ==
  LET same == {r \in d.address_balances : r.address = address}
      live == {r \in same : Visible(r, w)}
  IN IF \E r \in same : LockedByOther(r, w) THEN Wait(d, {})
     ELSE IF live # {}
       THEN Ok([d EXCEPT !.address_balances =
                  UpdateRows(@, live,
                             {AddBalance(r, valueChange) : r \in live}, w)],
               {})
     ELSE Ok([d EXCEPT !.address_balances =
                  @ \cup {BalanceRow(address, valueChange, w)}], {})

\* SELECT balance FROM address_balances WHERE address = $1, '0' without a row
getAddressBalance(d, address) ==
  LET rows == {r \in d.address_balances :
                 Visible(r, Pool) /\ r.address = address}
  IN IF rows = {} THEN 0 ELSE (CHOOSE r \in rows : TRUE).balance

\* ------------------------------------------------------------------------
\* src/src/models/transaction.model.ts (TransactionModel)
\* ------------------------------------------------------------------------
\* One pool query of validateInputsExist:
\*   SELECT value, is_spent FROM outputs WHERE transaction_id = $1 AND output_index = $2
SelectOutput(d, w, txId, index) ==
  {r \in d.outputs :
     Visible(r, w) /\ r.transaction_id = txId /\ r.output_index = index}

\* validateInputsExist without the test of is_spent
RECURSIVE ValidateInputsIgnoringSpent(_, _, _)
ValidateInputsIgnoringSpent(d, inputs, totalInputValue) ==
  IF inputs = <<>> THEN [isValid |-> TRUE, totalInputValue |-> totalInputValue]
  ELSE LET rows == SelectOutput(d, Pool, Head(inputs).txId, Head(inputs).index)
       IN IF rows = {} THEN [isValid |-> FALSE, totalInputValue |-> 0]
          ELSE ValidateInputsIgnoringSpent(d, Tail(inputs),
                 totalInputValue + (CHOOSE r \in rows : TRUE).value)

\* validateInputsExist continued from the accumulated total
RECURSIVE ValidateInputsFrom(_, _, _)
ValidateInputsFrom(d, inputs, totalInputValue) ==
  IF inputs = <<>> THEN [isValid |-> TRUE, totalInputValue |-> totalInputValue]
  ELSE LET rows == SelectOutput(d, Pool, Head(inputs).txId, Head(inputs).index)
       IN IF rows = {} THEN [isValid |-> FALSE, totalInputValue |-> 0]
          ELSE LET output == CHOOSE r \in rows : TRUE
               IN IF output.is_spent
                    THEN [isValid |-> FALSE, totalInputValue |-> 0]
                    ELSE ValidateInputsFrom(d, Tail(inputs),
                                            totalInputValue + output.value)

validateInputsExist(d, inputs) == ValidateInputsFrom(d, inputs, 0)

\* The statements BlockModel.insert issues on its client, in order.
Stmt(op, tx, txId, index, address, value) ==
  [op |-> op, tx |-> tx, txId |-> txId, index |-> index,
   address |-> address, value |-> value]

InputStmts(tx, input) ==
  << Stmt("markSpent", tx.id, input.txId, input.index, NULL, 0),
     Stmt("selectSpent", tx.id, input.txId, input.index, NULL, 0),
     Stmt("debit", tx.id, input.txId, input.index, NULL, 0) >>

OutputStmts(tx, i) ==
  << Stmt("insertOutput", tx.id, tx.id, i - 1,
          tx.outputs[i].address, tx.outputs[i].value),
     Stmt("credit", tx.id, tx.id, i - 1,
          tx.outputs[i].address, tx.outputs[i].value) >>

insertWithClient(tx) ==
  << Stmt("selectTx", tx.id, NULL, 0, NULL, 0),
     Stmt("insertTx", tx.id, NULL, 0, NULL, 0) >>
    \o Flatten([k \in 1..Len(tx.inputs) |-> InputStmts(tx, tx.inputs[k])])
    \o Flatten([i \in 1..Len(tx.outputs) |-> OutputStmts(tx, i)])

MarkSpent(r, spender) ==
  [r EXCEPT !.is_spent = TRUE, !.spent_in_transaction_id = spender]

\* One statement of BlockModel.insert / insertWithClient on client w.
ExecInsert(d, sel, w, block, s) ==
  CASE s.op = "selectBlock" ->
         IF \E r \in d.blocks :
              Visible(r, w) /\ (r.id = block.id \/ r.height = block.height)
           THEN Err(d) ELSE Ok(d, {})
    [] s.op = "insertBlock" ->
         InsertUnique(d,
           {r \in d.blocks : r.id = block.id \/ r.height = block.height},
           [d EXCEPT !.blocks = @ \cup {BlockRow(block.id, block.height, w)}],
           w)
    [] s.op = "selectTx" ->
         IF \E r \in d.transactions : Visible(r, w) /\ r.id = s.tx
           THEN Err(d) ELSE Ok(d, {})
    [] s.op = "insertTx" ->
         InsertUnique(d,
           {r \in d.transactions : r.id = s.tx},
           [d EXCEPT !.transactions = @ \cup {TransactionRow(s.tx, block, w)}],
           w)
    [] s.op = "markSpent" ->
         LET targets == SelectOutput(d, w, s.txId, s.index)
         IN IF \E r \in targets : LockedByOther(r, w) THEN Wait(d, {})
            ELSE Ok([d EXCEPT !.outputs =
                       UpdateRows(@, targets,
                                  {MarkSpent(r, s.tx) : r \in targets},
                                  w)], {})
    [] s.op = "selectSpent" ->
         Ok(d, SelectOutput(d, w, s.txId, s.index))
    [] s.op = "debit" ->
         IF sel = {} THEN Ok(d, {})
         ELSE LET spentOutput == CHOOSE r \in sel : TRUE
              IN updateAddressBalanceWithClient(d, w, spentOutput.address,
                                                0 - spentOutput.value)
    [] s.op = "insertOutput" ->
         InsertUnique(d,
           {r \in d.outputs :
              r.transaction_id = s.tx /\ r.output_index = s.index},
           [d EXCEPT !.outputs = @ \cup
              {OutputRow(s.tx, s.index,
                         [address |-> s.address, value |-> s.value],
                         block.height, w)}],
           w)
    [] s.op = "credit" ->
         updateAddressBalanceWithClient(d, w, s.address, s.value)
    [] s.op = "commit" -> Ok(CommitTx(d, w), {})

\* ------------------------------------------------------------------------
\* src/src/models/block.model.ts (BlockModel)
\* ------------------------------------------------------------------------
MaxOf(S) ==
  IF S = {} THEN 0
  ELSE LET x == CHOOSE y \in S : \A z \in S : y >= z IN x

\* SELECT COALESCE(MAX(height), 0) FROM blocks
getCurrentHeight(d) == MaxOf({r.height : r \in {b \in d.blocks : Visible(b, Pool)}})

InsertStmts(block) ==
  << Stmt("selectBlock", NULL, NULL, 0, NULL, 0),
     Stmt("insertBlock", NULL, NULL, 0, NULL, 0) >>
    \o Flatten([k \in 1..Len(block.transactions) |->
                  insertWithClient(block.transactions[k])])
    \o << Stmt("commit", NULL, NULL, 0, NULL, 0) >>

RECURSIVE RunStmts(_, _, _, _, _)
RunStmts(d, sel, w, block, stmts) ==
  IF stmts = <<>> THEN Ok(d, sel)
  ELSE LET r == ExecInsert(d, sel, w, block, Head(stmts))
       IN IF r.status = "ok" THEN RunStmts(r.db, r.sel, w, block, Tail(stmts))
          ELSE r

\* a catch block that rethrows without the ROLLBACK
CaughtWithoutRollback(r, w) == r

\* try { BEGIN ... COMMIT } catch { ROLLBACK; throw }
Caught(r, w) ==
  IF r.status = "error" THEN [r EXCEPT !.db = AbortTx(r.db, w)] ELSE r

BlockModel_insert(d, w, block) ==
  Caught(RunStmts(d, {}, w, block, InsertStmts(block)), w)

\* The same call when its k-th statement fails in the database (connection
\* loss, statement timeout): the statements before it have run.
BlockModel_insertFailing(d, w, block, k) ==
  LET r == RunStmts(d, {}, w, block, SubSeq(InsertStmts(block), 1, k - 1))
  IN Caught(IF r.status = "ok" THEN Err(r.db) ELSE r, w)

\* ------------------------------------------------------------------------
\* TransactionModel.rollbackBlock and BlockModel.rollbackToHeight
\* ------------------------------------------------------------------------
\* UPDATE address_balances SET balance = balance + delta WHERE address = $3
UpdateBalance(d, w, address, delta) ==
  LET targets == {r \in d.address_balances :
                    Visible(r, w) /\ r.address = address}
  IN IF \E r \in targets : LockedByOther(r, w) THEN Wait(d, {})
     ELSE Ok([d EXCEPT !.address_balances =
                UpdateRows(@, targets,
                           {AddBalance(r, delta) : r \in targets}, w)], {})

\* the UPDATE of the inputs loop that clears the spender only
UnspendKeepingFlag(r) == [r EXCEPT !.spent_in_transaction_id = NULL]

Unspend(r) == [r EXCEPT !.is_spent = FALSE, !.spent_in_transaction_id = NULL]

\* UPDATE outputs SET is_spent = FALSE, spent_in_transaction_id = NULL
\*   WHERE spent_in_transaction_id = $1
UnspendOutputs(d, w, txId) ==
  LET targets == {r \in d.outputs :
                    Visible(r, w) /\ r.spent_in_transaction_id = txId}
  IN IF \E r \in targets : LockedByOther(r, w) THEN Wait(d, {})
     ELSE Ok([d EXCEPT !.outputs =
                UpdateRows(@, targets, {Unspend(r) : r \in targets}, w)], {})

\* for (const output of outputs.rows): subtract its value from its address
RECURSIVE ReverseOutputs(_, _, _)
ReverseOutputs(d, w, rows) ==
  IF rows = {} THEN Ok(d, {})
  ELSE LET output == CHOOSE r \in rows : TRUE
       IN The({IF u.status = "ok"
                 THEN ReverseOutputs(u.db, w, rows \ {output}) ELSE u :
               u \in {UpdateBalance(d, w, output.address,
                                    0 - output.value)}})

\* for (const input of inputs.rows): unspend, add its value back
RECURSIVE ReverseInputs(_, _, _, _)
ReverseInputs(d, w, txId, rows) ==
  IF rows = {} THEN Ok(d, {})
  ELSE LET input == CHOOSE r \in rows : TRUE
       IN The({IF v.status = "ok"
                 THEN ReverseInputs(v.db, w, txId, rows \ {input}) ELSE v :
               v \in {IF u.status = "ok"
                        THEN UpdateBalance(u.db, w, input.address, input.value)
                        ELSE u :
                      u \in {UnspendOutputs(d, w, txId)}}})

\* for (const tx of transactions.rows)
RECURSIVE RollbackTxs(_, _, _)
RollbackTxs(d, w, txIds) ==
  IF txIds = {} THEN Ok(d, {})
  ELSE LET id == CHOOSE t \in txIds : TRUE
           outputs == {r \in d.outputs :
                         Visible(r, w) /\ r.transaction_id = id}
       IN The({IF v.status = "ok"
                 THEN RollbackTxs(v.db, w, txIds \ {id}) ELSE v :
               v \in {IF u.status = "ok"
                        THEN ReverseInputs(u.db, w, id,
                               {r \in u.db.outputs :
                                  /\ Visible(r, w)
                                  /\ r.spent_in_transaction_id = id})
                        ELSE u :
                      u \in {ReverseOutputs(d, w, outputs)}}})

rollbackBlock(d, w, blockId, blockHeight) ==
  RollbackTxs(d, w, {r.id : r \in {t \in d.transactions :
                                     Visible(t, w) /\ t.block_id = blockId}})

\* SELECT id, height FROM blocks WHERE height > $1 ORDER BY height DESC
RECURSIVE HeightDesc(_)
HeightDesc(rows) ==
  IF rows = {} THEN <<>>
  ELSE LET top == CHOOSE r \in rows : \A q \in rows : r.height >= q.height
       IN <<[id |-> top.id, height |-> top.height]>> \o HeightDesc(rows \ {top})

SelectBlocksToRollback(d, w, targetHeight) ==
  HeightDesc({r \in d.blocks : Visible(r, w) /\ r.height > targetHeight})

\* DELETE FROM blocks WHERE height > $1 on a schema without ON DELETE CASCADE:
\* the transactions and outputs of the deleted blocks stay
DeleteBlocksNoCascade(d, w, targetHeight) ==
  LET delBlocks == {r \in d.blocks : Visible(r, w) /\ r.height > targetHeight}
  IN IF \E r \in delBlocks : LockedByOther(r, w) THEN Wait(d, {})
     ELSE Ok([d EXCEPT !.blocks = DeleteRows(@, delBlocks, w)], {})

\* DELETE FROM blocks WHERE height > $1, with the schema's ON DELETE CASCADE
\* (transactions, outputs) and ON DELETE SET NULL (outputs.spent_in_transaction_id)
DeleteBlocks(d, w, targetHeight) ==
  LET delBlocks == {r \in d.blocks : Visible(r, w) /\ r.height > targetHeight}
      blockIds == {r.id : r \in delBlocks}
      delTxs == {r \in d.transactions : Visible(r, w) /\ r.block_id \in blockIds}
      txIds == {r.id : r \in delTxs}
      delOutputs == {r \in d.outputs : Visible(r, w) /\ r.transaction_id \in txIds}
      nullOutputs == {r \in d.outputs :
                        /\ Visible(r, w)
                        /\ r \notin delOutputs
                        /\ r.spent_in_transaction_id \in txIds}
  IN IF \E r \in delBlocks \cup delTxs \cup delOutputs \cup nullOutputs :
          LockedByOther(r, w)
       THEN Wait(d, {})
     ELSE Ok([d EXCEPT
                !.blocks = DeleteRows(@, delBlocks, w),
                !.transactions = DeleteRows(@, delTxs, w),
                !.outputs =
                  UpdateRows(DeleteRows(@, delOutputs, w), nullOutputs,
                             {[r EXCEPT !.spent_in_transaction_id = NULL] :
                                r \in nullOutputs},
                             w)], {})

RECURSIVE RollbackBlocks(_, _, _)
RollbackBlocks(d, w, blocks) ==
  IF blocks = <<>> THEN Ok(d, {})
  ELSE The({IF u.status = "ok"
              THEN RollbackBlocks(u.db, w, Tail(blocks)) ELSE u :
            u \in {rollbackBlock(d, w, Head(blocks).id,
                                 Head(blocks).height)}})

BlockModel_rollbackToHeight(d, w, targetHeight) ==
  Caught(
    The({IF v.status = "ok" THEN Ok(CommitTx(v.db, w), {}) ELSE v :
         v \in {IF u.status = "ok"
                  THEN DeleteBlocks(u.db, w, targetHeight) ELSE u :
                u \in {RollbackBlocks(d, w,
                         SelectBlocksToRollback(d, w, targetHeight))}}}),
    w)

\* ------------------------------------------------------------------------
\* src/src/services/blockchain.service.ts (models-based BlockchainService)
\* ------------------------------------------------------------------------
\* AppConfig.MAX_ROLLBACK_BLOCKS, as set by the environment variable of the
\* same name (2000 when unset)
MAX_ROLLBACK_BLOCKS == 2

\* const allInputs = validatedBlock.transactions.flatMap(tx => tx.inputs)
AllInputs(block) ==
  Flatten([k \in 1..Len(block.transactions) |-> block.transactions[k].inputs])

\* what a call that threw returns
NoResult == [thrown |-> TRUE]

\* the arguments processBlock hands to validateBlock
Validated(d, block) ==
  [block |-> block, currentHeight |-> getCurrentHeight(d),
   inputValidation |-> validateInputsExist(d, AllInputs(block))]

\* processBlock that writes the block before it validates it
processBlockInsertFirst(d, w, block) ==
  LET r == BlockModel_insert(d, w, block)
      validationError ==
        validateBlock(block, getCurrentHeight(d),
                      validateInputsExist(d, AllInputs(block)))
  IN [db |-> r.db,
      code |-> IF validationError # OK THEN validationError
               ELSE IF r.status = "ok" THEN OK ELSE "ERROR",
      validated |-> Validated(d, block),
      validationError |-> validationError,
      result |-> IF validationError = OK /\ r.status = "ok"
                   THEN [blockId |-> block.id, height |-> block.height]
                   ELSE NoResult]

\* processBlock run alone on client w: the tables afterwards and the outcome
\* (OK, the validation code thrown, or ERROR for an error of BlockModel.insert).
processBlock(d, w, block) ==
  LET currentHeight == getCurrentHeight(d)
      inputValidation == validateInputsExist(d, AllInputs(block))
      validationError == validateBlock(block, currentHeight, inputValidation)
  IN IF validationError # OK
       THEN [db |-> d, code |-> validationError,
             validated |-> Validated(d, block),
             validationError |-> validationError, result |-> NoResult]
     ELSE LET r == BlockModel_insert(d, w, block)
          IN [db |-> r.db, code |-> IF r.status = "ok" THEN OK ELSE "ERROR",
              validated |-> Validated(d, block),
              validationError |-> validationError,
              result |-> IF r.status = "ok"
                           THEN [blockId |-> block.id, height |-> block.height]
                           ELSE NoResult]

\* rollbackToHeight that reads the height it returns as previousHeight after
\* the rollback
rollbackToHeightReadsAfter(d, w, targetHeight) ==
  LET currentHeight == getCurrentHeight(d)
  IN IF targetHeight > currentHeight
       THEN [db |-> d, code |-> "TARGET_ABOVE_CURRENT", result |-> NoResult]
     ELSE IF currentHeight - targetHeight > MAX_ROLLBACK_BLOCKS
       THEN [db |-> d, code |-> "TOO_MANY_BLOCKS", result |-> NoResult]
     ELSE The({[db |-> r.db, code |-> IF r.status = "ok" THEN OK ELSE "ERROR",
                result |-> IF r.status = "ok"
                             THEN [targetHeight |-> targetHeight,
                                   previousHeight |-> getCurrentHeight(r.db)]
                             ELSE NoResult] :
               r \in {BlockModel_rollbackToHeight(d, w, targetHeight)}})

\* rollbackToHeight with the depth test `>= MAX_ROLLBACK_BLOCKS`
rollbackToHeightDepthInclusive(d, w, targetHeight) ==
  LET currentHeight == getCurrentHeight(d)
  IN IF targetHeight > currentHeight
       THEN [db |-> d, code |-> "TARGET_ABOVE_CURRENT", result |-> NoResult]
     ELSE IF currentHeight - targetHeight >= MAX_ROLLBACK_BLOCKS
       THEN [db |-> d, code |-> "TOO_MANY_BLOCKS", result |-> NoResult]
     ELSE The({[db |-> r.db, code |-> IF r.status = "ok" THEN OK ELSE "ERROR",
                result |-> IF r.status = "ok"
                             THEN [targetHeight |-> targetHeight,
                                   previousHeight |-> currentHeight]
                             ELSE NoResult] :
               r \in {BlockModel_rollbackToHeight(d, w, targetHeight)}})

\* rollbackToHeight run alone on client w: the tables afterwards, the
\* outcome and the value returned
rollbackToHeight(d, w, targetHeight) ==
  LET currentHeight == getCurrentHeight(d)
  IN IF targetHeight > currentHeight
       THEN [db |-> d, code |-> "TARGET_ABOVE_CURRENT", result |-> NoResult]
     ELSE IF currentHeight - targetHeight > MAX_ROLLBACK_BLOCKS
       THEN [db |-> d, code |-> "TOO_MANY_BLOCKS", result |-> NoResult]
     ELSE The({[db |-> r.db, code |-> IF r.status = "ok" THEN OK ELSE "ERROR",
                result |-> IF r.status = "ok"
                             THEN [targetHeight |-> targetHeight,
                                   previousHeight |-> currentHeight]
                             ELSE NoResult] :
               r \in {BlockModel_rollbackToHeight(d, w, targetHeight)}})

\* ------------------------------------------------------------------------
\* POST /rollback (src/src/routes/blockchain.route.ts): the preHandler
\* validateRollbackQuery on a numeric height, then the controller's call of
\* the service
\* ------------------------------------------------------------------------
\* a preHandler without the test `numericHeight < 0`
validateRollbackQueryAnyNumber(numericHeight) == OK

validateRollbackQuery(numericHeight) ==
  IF numericHeight < 0 THEN "NEGATIVE_HEIGHT" ELSE OK

postRollback(d, w, height) ==
  IF validateRollbackQuery(height) # OK
    THEN [db |-> d, code |-> validateRollbackQuery(height),
          result |-> NoResult]
  ELSE rollbackToHeight(d, w, height)

\* ------------------------------------------------------------------------
\* Submitted blocks (all pass BlockSchema: height >= 1, value >= 1, ids
\* non-empty)
\* ------------------------------------------------------------------------
Outputs == [address : Addresses, value : Values]

\* one output, or one output to each address, worth at most 2 in all
OutputSeqs ==
  {<<o>> : o \in Outputs \ {[address |-> "a", value |-> 2]}}
    \cup {<<o, p>> : o \in {x \in Outputs : x.address = "a" /\ x.value = 1},
                     p \in {x \in Outputs : x.address = "b" /\ x.value = 1}}

\* the outputs referenced by inputs: those of the first two transaction ids
Keys == [txId : {"t1", "t2"}, index : {0, 1}]

\* no input, one input, the same input twice, or both outputs of a transaction
InputSeqs ==
  {<<>>} \cup {<<k>> : k \in Keys} \cup {<<k, k>> : k \in Keys}
         \cup {<<k, [k EXCEPT !.index = 1]>> : k \in {x \in Keys : x.index = 0}}

\* the transactions of the one-transaction blocks
Transactions == [id : {"t1", "t2"}, inputs : InputSeqs, outputs : OutputSeqs]

\* the small transactions: a coinbase or one input, one output of 1 to b
PairTransactions ==
  [id : TxIds,
   inputs : {<<>>} \cup {<<k>> : k \in {x \in Keys : x.index = 0}},
   outputs : {<<[address |-> "b", value |-> 1]>>}]

\* no transaction, one, or two small ones (ids equal or different)
TransactionSeqs ==
  {<<>>} \cup {<<t>> : t \in Transactions}
         \cup {<<t, u>> : t \in {x \in PairTransactions : x.id # "t3"},
                          u \in {x \in PairTransactions : x.id # "t1"}}

Block(id, height, transactions) ==
  [id |-> id, height |-> height, transactions |-> transactions]

\* Every block with its computed id, by height
BlocksAt ==
  [h \in 1..(MaxHeight + 1) |->
     {Block(calculateBlockId(h, txs), h, txs) : txs \in TransactionSeqs}]

\* The blocks of at most one small transaction, of any height, with the id
\* computed for any height
SmallBlocks ==
  {Block(calculateBlockId(g, txs), h, txs) :
     g \in 1..(MaxHeight + 1), h \in 1..(MaxHeight + 1),
     txs \in {<<>>} \cup {<<t>> : t \in PairTransactions}}

\* The blocks submitted to a ledger: all of the next height, the small ones
\* of any height.
SubmittedBlocks(d) == BlocksAt[getCurrentHeight(d) + 1] \cup SmallBlocks

\* ------------------------------------------------------------------------
\* Calls executed one at a time
\* ------------------------------------------------------------------------
Client == CHOOSE w \in Workers : TRUE

vars == <<db, last, chain, rollbacks, call, db0, vin, vout, hout, ret, undone>>

\* a worker's call: operation, position, arguments and locals
NoBlock == [id |-> "", height |-> 0, transactions |-> <<>>]

NoInput ==
  [block |-> NoBlock, currentHeight |-> 0,
   inputValidation |-> [isValid |-> TRUE, totalInputValue |-> 0]]

Idle ==
  [op |-> "idle", pc |-> "idle", block |-> NoBlock, target |-> 0,
   currentHeight |-> 0, inputs |-> <<>>, total |-> 0,
   inputValidation |-> NoInput.inputValidation, stmts |-> <<>>,
   sel |-> {}, blocks |-> <<>>, code |-> ""]

\* the variables of the concurrent calls and of validateBlockHeight
others == <<call, db0, hout>>

\* a finished call: its operation, its outcome, its argument (the block's
\* height or the target height), the height it read, and for processBlock the
\* number of statements BlockModel.insert completed
Call(op, code, arg, before, done) ==
  [op |-> op, code |-> code, arg |-> arg, before |-> before, done |-> done]

NoCall == Call("none", OK, 0, 0, 0)

Init ==
  /\ db = EmptyDb
  /\ last = NoCall
  /\ chain = <<>>
  /\ rollbacks = 0
  /\ call = [w \in Workers |-> Idle]
  /\ db0 = EmptyDb
  /\ vin = NoInput
  /\ vout = None
  /\ hout = None
  /\ ret = NoResult
  /\ undone = {}

Validation(d, block) ==
  validateBlock(block, getCurrentHeight(d),
                validateInputsExist(d, AllInputs(block)))

\* POST /blocks: the service call, its outcome held for the reply
ProcessBlock(block) ==
  /\ last = NoCall
  /\ ~(Validation(db, block) = OK /\ block.height > MaxHeight)
  /\ \E r \in {processBlock(db, Client, block)} :
       /\ db' = r.db
       /\ last' = Call("processBlock", r.code, block.height,
                       getCurrentHeight(db),
                       IF r.code = OK THEN Len(InsertStmts(block)) ELSE 0)
       /\ chain' = IF r.code = OK THEN Append(chain, block) ELSE chain
       /\ vin' = r.validated
       /\ vout' = r.validationError
       /\ ret' = r.result
  /\ UNCHANGED <<rollbacks, undone, others>>

\* POST /blocks when a statement of BlockModel.insert (the k-th, any but the
\* COMMIT) fails in the database
ProcessBlockFailing(block) ==
  /\ last = NoCall
  /\ block.height <= MaxHeight
  /\ Validation(db, block) = OK
  /\ \E k \in 1..(Len(InsertStmts(block)) - 1) :
       \E r \in {BlockModel_insertFailing(db, Client, block, k)} :
          /\ r.status = "error"
          /\ db' = r.db
          /\ last' = Call("processBlock", "ERROR", block.height,
                          getCurrentHeight(db), k - 1)
  /\ vin' = Validated(db, block)
  /\ vout' = OK
  /\ ret' = NoResult
  /\ UNCHANGED <<chain, rollbacks, undone, others>>

\* the ids of the transactions of the blocks above the height
TransactionIdsAbove(blocks, height) ==
  UNION {{blocks[i].transactions[k].id : k \in 1..Len(blocks[i].transactions)} :
           i \in {j \in 1..Len(blocks) : blocks[j].height > height}}

\* POST /rollback?height=targetHeight
RollbackToHeight(targetHeight) ==
  /\ last = NoCall
  /\ \E r \in {postRollback(db, Client, targetHeight)} :
       /\ r.code = OK => rollbacks < MaxRollbacks
       /\ db' = r.db
       /\ last' = Call("rollbackToHeight", r.code, targetHeight,
                       getCurrentHeight(db), 0)
       /\ chain' = IF r.code = OK
                     THEN SubSeq(chain, 1, targetHeight) ELSE chain
       /\ rollbacks' = IF r.code = OK THEN rollbacks + 1 ELSE rollbacks
       /\ ret' = r.result
       /\ undone' = IF r.code = OK
                      THEN TransactionIdsAbove(chain, targetHeight)
                      ELSE undone
  /\ UNCHANGED <<vin, vout, others>>

\* the controller sends the reply (or the error) of the finished call
Reply ==
  /\ last # NoCall
  /\ last' = NoCall
  /\ vin' = NoInput
  /\ vout' = None
  /\ ret' = NoResult
  /\ undone' = IF last.op = "rollbackToHeight" /\ last.code = OK
                 THEN undone ELSE {}
  /\ UNCHANGED <<db, chain, rollbacks, others>>

Next ==
  \/ \E block \in SubmittedBlocks(db) : ProcessBlock(block)
  \/ \E block \in BlocksAt[getCurrentHeight(db) + 1] :
       ProcessBlockFailing(block)
  \/ \E targetHeight \in (0 - 1)..(MaxHeight + 1) :
       RollbackToHeight(targetHeight)
  \/ Reply

Spec == Init /\ [][Next]_vars

\* ------------------------------------------------------------------------
\* The committed ledger
\* ------------------------------------------------------------------------
CommittedRows(table) ==
  {[r EXCEPT !.xmax = None] : r \in {t \in table : t.xmin = Committed}}

CommittedDb(d) ==
  [blocks |-> CommittedRows(d.blocks),
   transactions |-> CommittedRows(d.transactions),
   outputs |-> CommittedRows(d.outputs),
   address_balances |-> CommittedRows(d.address_balances)]

RECURSIVE SumValue(_)
SumValue(rows) ==
  IF rows = {} THEN 0
  ELSE LET r == CHOOSE x \in rows : TRUE IN r.value + SumValue(rows \ {r})

UnspentValue(d, address) ==
  SumValue({r \in CommittedRows(d.outputs) :
              r.address = address /\ ~r.is_spent})

Heights(d) == {r.height : r \in CommittedRows(d.blocks)}

\* every input of every transaction of the committed blocks
RECURSIVE ChainInputs(_)
ChainInputs(blocks) ==
  IF blocks = <<>> THEN <<>>
  ELSE AllInputs(Head(blocks)) \o ChainInputs(Tail(blocks))

Uses(inputs, key) == Cardinality({i \in 1..Len(inputs) : inputs[i] = key})

\* what a reader of the ledger sees: height, balances, outputs, spent flags
LedgerView(d) ==
  [height |-> getCurrentHeight(d),
   balances |-> [a \in Addresses |-> getAddressBalance(d, a)],
   outputs |-> {[transaction_id |-> r.transaction_id,
                 output_index |-> r.output_index,
                 address |-> r.address, value |-> r.value,
                 is_spent |-> r.is_spent] : r \in CommittedRows(d.outputs)}]

\* the ledger on which only the given blocks were applied, in order
RECURSIVE Replay(_, _)
Replay(d, blocks) ==
  IF blocks = <<>> THEN d
  ELSE Replay(processBlock(d, Client, Head(blocks)).db, Tail(blocks))

\* ------------------------------------------------------------------------
\* Properties of calls executed one at a time (Spec)
\* ------------------------------------------------------------------------
ValidationCodes ==
  {"INVALID_BLOCK_ID", "INVALID_HEIGHT", "INVALID_INPUTS", "INVALID_BALANCE"}

\* C1: after any sequence of processBlock and rollbackToHeight calls the
\* stored balance of every address (0 without a row) equals the sum of the
\* values of the stored unspent outputs of that address.
C1_BalanceDerivation ==
  \A a \in Addresses : getAddressBalance(db, a) = UnspentValue(db, a)

\* C2: no output is referenced by more than one input of the transactions of
\* the committed blocks, so no committed block consumes an output twice.
C2_NoDoubleSpend ==
  \A key \in Keys : Uses(ChainInputs(chain), key) <= 1

\* C3: the stored block heights are exactly 1..currentHeight, none repeated
\* and none skipped.
C3_HeightContiguity ==
  /\ Heights(db) = 1..getCurrentHeight(db)
  /\ Cardinality(CommittedRows(db.blocks)) = Cardinality(Heights(db))

C3_Witness ==
  /\ rollbacks = 1
  /\ last.op = "processBlock" /\ last.code = OK
  /\ getCurrentHeight(db) = MaxHeight

\* C4: after rollbackToHeight(k) with k below the height n of the ledger, the
\* balances, the stored outputs, the unspent outputs and the height are those
\* of a ledger on which only the first k accepted blocks were applied.
C4_RollbackInverse ==
  (last.op = "rollbackToHeight" /\ last.code = OK /\ last.arg < last.before)
    => LedgerView(db) = LedgerView(Replay(EmptyDb, chain))

\* C5: a processBlock call rejected with one of the four validation codes
\* leaves the height, the balances and the stored blocks, transactions and
\* outputs (spent flags included) as they were.
C5_RejectionFrame ==
  [][(last'.op = "processBlock" /\ last'.code \in ValidationCodes)
       => db' = db]_vars

C5_Witness ==
  /\ last.op = "processBlock" /\ last.code = "INVALID_BALANCE"
  /\ CommittedRows(db.outputs) # {}

\* C6: when a statement of BlockModel.insert fails after BEGIN, the committed
\* blocks, transactions, outputs (spent flags and spender references) and
\* balances are those before the call, no uncommitted row is left behind, and
\* the call ends with the error.
C6_InsertAtomic ==
  [][(last = NoCall /\ last'.op = "processBlock"
        /\ last'.code \notin ValidationCodes \cup {OK})
       => (last'.code = "ERROR" /\ db' = db /\ CommittedDb(db') = db')]_vars

C6_Witness ==
  /\ last.op = "processBlock" /\ last.code = "ERROR"
  /\ last.done >= 6
  /\ CommittedRows(db.outputs) # {}

\* the stored outputs an input references (none or one)
Referenced(d, input) ==
  {r \in CommittedRows(d.outputs) :
     r.transaction_id = input.txId /\ r.output_index = input.index}

Resolvable(d, input) == \E r \in Referenced(d, input) : ~r.is_spent

\* the values of the outputs the inputs reference, summed input by input
InputValue(d, inputs) ==
  SeqSum([k \in 1..Len(inputs) |-> SumValue(Referenced(d, inputs[k]))])

\* C13: validateInputsExist returns isValid = false exactly when some input
\* of the block references an output that is not stored or is stored as
\* spent, and otherwise isValid = true with the sum of the values of the
\* referenced outputs; processBlock rejects a block with the computed id
\* and the next height that has such an input with INVALID_INPUTS and
\* leaves the tables as they were.
C13_InputsResolved ==
  [][(last = NoCall /\ last'.op = "processBlock") =>
       LET block == vin'.block
           inputs == AllInputs(block)
           unresolved == \E k \in 1..Len(inputs) : ~Resolvable(db, inputs[k])
       IN /\ vin'.inputValidation.isValid <=> ~unresolved
          /\ ~unresolved =>
               vin'.inputValidation.totalInputValue = InputValue(db, inputs)
          /\ (/\ unresolved
              /\ validateBlockId(block)
              /\ block.height = getCurrentHeight(db) + 1)
               => (last'.code = "INVALID_INPUTS" /\ db' = db)]_vars

C13_Witness ==
  /\ last.op = "processBlock" /\ last.code = "INVALID_INPUTS"
  /\ \E k \in 1..Len(AllInputs(vin.block)) :
       /\ Referenced(db, AllInputs(vin.block)[k]) # {}
       /\ ~Resolvable(db, AllInputs(vin.block)[k])

StoredTransactionIds(d) == {r.id : r \in CommittedRows(d.transactions)}

\* the value the outputs of the transactions send to the address
RECURSIVE SentTo(_, _)
SentTo(outputs, address) ==
  IF outputs = <<>> THEN 0
  ELSE (IF Head(outputs).address = address THEN Head(outputs).value ELSE 0)
         + SentTo(Tail(outputs), address)

\* the value of the stored outputs of the address that the inputs reference
OwnedValue(d, inputs, address) ==
  SeqSum([k \in 1..Len(inputs) |->
            SumValue({r \in Referenced(d, inputs[k]) : r.address = address})])

\* a block of two new transactions with the computed id and the next height:
\* the first is a coinbase or spends stored unspent outputs of the same
\* total value, the second spends one output of the first into outputs of
\* the same value
ChainedPair(d, block) ==
  /\ validateBlockId(block)
  /\ block.height = getCurrentHeight(d) + 1
  /\ Len(block.transactions) = 2
  /\ LET t == block.transactions[1]
         u == block.transactions[2]
     IN /\ t.id # u.id
        /\ {t.id, u.id} \cap StoredTransactionIds(d) = {}
        /\ \A k \in 1..Len(t.inputs) : Resolvable(d, t.inputs[k])
        /\ \A j, k \in 1..Len(t.inputs) : t.inputs[j] = t.inputs[k] => j = k
        /\ t.inputs # <<>> =>
             InputValue(d, t.inputs) = OutputValueSum(t.outputs)
        /\ Len(u.inputs) = 1
        /\ u.inputs[1].txId = t.id
        /\ u.inputs[1].index < Len(t.outputs)
        /\ OutputValueSum(u.outputs) = t.outputs[u.inputs[1].index + 1].value

\* C14: processBlock accepts a block with the computed id and the next
\* height in which the second transaction spends an output the first one
\* creates, value conserved; afterwards that output is stored as spent by the
\* second transaction and the balances reflect both transactions.
C14_IntraBlockSpend ==
  [][(last = NoCall /\ last'.op = "processBlock"
        /\ ChainedPair(db, vin'.block)) =>
       LET t == vin'.block.transactions[1]
           u == vin'.block.transactions[2]
           spent == t.outputs[u.inputs[1].index + 1]
       IN /\ last'.code = OK
          /\ \E r \in Referenced(db', u.inputs[1]) :
               r.is_spent /\ r.spent_in_transaction_id = u.id
          /\ \A a \in Addresses :
               getAddressBalance(db', a) =
                 getAddressBalance(db, a) - OwnedValue(db, t.inputs, a)
                   + SentTo(t.outputs, a) - SentTo(<<spent>>, a)
                   + SentTo(u.outputs, a)]_vars

\* the transaction ids of the blocks, in order
RECURSIVE TransactionIdsOf(_)
TransactionIdsOf(blocks) ==
  IF blocks = <<>> THEN <<>>
  ELSE [k \in 1..Len(Head(blocks).transactions) |->
          Head(blocks).transactions[k].id]
         \o TransactionIdsOf(Tail(blocks))

Repeats(ids) == \E j, k \in 1..Len(ids) : j # k /\ ids[j] = ids[k]

\* C15: every transaction id is stored at most once and occurs at most once
\* in the committed blocks; a processBlock call for a block that repeats a
\* transaction id, or has the id of a stored transaction, does not succeed
\* and leaves the tables as they were.
C15_UniqueTransactionIds ==
  [][/\ \A id \in TxIds :
          Cardinality({r \in CommittedRows(db'.transactions) : r.id = id}) <= 1
     /\ ~Repeats(TransactionIdsOf(chain'))
     /\ (/\ last = NoCall /\ last'.op = "processBlock"
         /\ LET ids == TransactionIdsOf(<<vin'.block>>)
            IN \/ Repeats(ids)
               \/ \E k \in 1..Len(ids) : ids[k] \in StoredTransactionIds(db))
          => (last'.code # OK /\ db' = db)]_vars

C15_Witness ==
  /\ last.op = "processBlock" /\ last.code = "ERROR" /\ vout = OK
  /\ ~Repeats(TransactionIdsOf(<<vin.block>>))
  /\ \E k \in 1..Len(vin.block.transactions) :
       vin.block.transactions[k].id \in StoredTransactionIds(db)

\* C16: rollbackToHeight rejects every request whose target height is the
\* current height or above it, and a rejected request leaves the tables as
\* they were.
C16_TargetInPast ==
  [][(/\ last = NoCall /\ last'.op = "rollbackToHeight"
      /\ last'.arg >= getCurrentHeight(db))
       => (last'.code # OK /\ db' = db)]_vars

\* C18: a rollback request with a negative target height is rejected before
\* anything is written: whatever the current height, the call neither
\* succeeds nor fails half-way, and the blocks, transactions, outputs and
\* balances are those before it.
C18_NegativeTarget ==
  [][(last = NoCall /\ last'.op = "rollbackToHeight" /\ last'.arg < 0)
       => (last'.code \notin {OK, "ERROR"} /\ db' = db)]_vars

C18_Witness ==
  /\ last.op = "rollbackToHeight" /\ last.arg < 0
  /\ last.code = "NEGATIVE_HEIGHT"
  /\ getCurrentHeight(db) = MaxHeight
  /\ CommittedRows(db.outputs) # {}

\* C19: a rollbackToHeight call that succeeds returns the target height it
\* was given and, as previousHeight, the current height before the call;
\* right after it the current height is the target height and no block,
\* transaction or output of a greater height is stored.
C19_RollbackResult ==
  [][(last = NoCall /\ last'.op = "rollbackToHeight" /\ last'.code = OK) =>
       /\ ret' = [targetHeight |-> last'.arg,
                  previousHeight |-> getCurrentHeight(db)]
       /\ getCurrentHeight(db') = last'.arg
       /\ \A r \in db'.blocks : r.height <= last'.arg
       /\ \A r \in db'.transactions \cup db'.outputs :
            r.block_height <= last'.arg
       /\ \A r \in db'.outputs :
            r.transaction_id \in StoredTransactionIds(db')]_vars

C19_Witness ==
  /\ last.op = "rollbackToHeight" /\ last.code = OK
  /\ last.arg >= 1 /\ last.before > last.arg
  /\ ret.previousHeight = MaxHeight
  /\ undone # {}
  /\ CommittedRows(db.outputs) # {}

\* C20: once a rollback has succeeded, a processBlock call for a block that
\* would be accepted by a ledger on which only the remaining blocks were
\* applied is accepted too, whether or not the block reuses transaction ids
\* (and so output keys) of the blocks rolled back: the call run to its end
\* succeeds, and it is never rejected by the validation (it ends with an
\* error only when one of its statements fails in the database).
C20_ReuseAfterRollback ==
  [][(/\ last = NoCall /\ last'.op = "processBlock"
      /\ rollbacks >= 1
      /\ processBlock(Replay(EmptyDb, chain), Client, vin'.block).code = OK)
       => /\ processBlock(db, Client, vin'.block).code = OK
          /\ last'.code \in {OK, "ERROR"}
          /\ last'.code = OK => getCurrentHeight(db') = Len(chain) + 1]_vars

C20_Witness ==
  /\ rollbacks >= 1
  /\ last.op = "processBlock" /\ last.code = OK
  /\ \E k \in 1..Len(vin.block.transactions) :
       /\ vin.block.transactions[k].id \in undone
       /\ vin.block.transactions[k].inputs # <<>>

\* C24: a block submitted again while it is the top block of the ledger is
\* rejected with the height error and changes nothing, so the ledger after
\* the second call is the ledger after the first; and when a statement of
\* BlockModel.insert failed in the database for a block that the call run to
\* its end accepts, the same call made again succeeds and leaves the ledger a
\* single successful call leaves.
C24_RetrySafe ==
  [][(last = NoCall /\ last'.op = "processBlock") =>
       /\ (chain # <<>> /\ vin'.block = chain[Len(chain)])
            => (last'.code = "INVALID_HEIGHT" /\ db' = db)
       /\ last'.code = OK =>
            The({r.code = "INVALID_HEIGHT" /\ r.db = db' :
                 r \in {processBlock(db', Client, vin'.block)}})
       /\ (last'.code = "ERROR"
             /\ processBlock(db, Client, vin'.block).code = OK) =>
            The({r.code = OK
                   /\ r.db = processBlock(db, Client, vin'.block).db :
                 r \in {processBlock(db', Client, vin'.block)}})]_vars

C24_Witness ==
  /\ last.op = "processBlock" /\ last.code = "INVALID_HEIGHT"
  /\ chain # <<>> /\ vin.block = chain[Len(chain)]
  /\ AllInputs(vin.block) # <<>>

C24_Retried ==
  /\ last.op = "processBlock" /\ last.code = "ERROR" /\ last.done >= 6
  /\ AllInputs(vin.block) # <<>>
  /\ processBlock(db, Client, vin.block).code = OK

\* every stored output is flagged spent exactly when its spender reference
\* names a stored transaction
SpentByStored(d) ==
  \A r \in CommittedRows(d.outputs) :
     r.is_spent <=> r.spent_in_transaction_id \in StoredTransactionIds(d)

\* the stored outputs that survive the step although the transaction that
\* spent them is removed by it
Released(d, e) ==
  {r \in CommittedRows(d.outputs) :
     /\ r.transaction_id \in StoredTransactionIds(e)
     /\ r.spent_in_transaction_id
          \in StoredTransactionIds(d) \ StoredTransactionIds(e)}

\* C21: in every state every stored output is flagged spent exactly when
\* its spender reference names a stored transaction; and every output that
\* survives a rollback while its spender is removed is unspent afterwards
\* and passes the input check.
C21_SpentByStored ==
  [][/\ SpentByStored(db')
     /\ \A r \in Released(db, db') :
          /\ \E q \in Referenced(db', [txId |-> r.transaction_id,
                                       index |-> r.output_index]) :
               ~q.is_spent /\ q.spent_in_transaction_id = NULL
          /\ validateInputsExist(db', <<[txId |-> r.transaction_id,
                                         index |-> r.output_index]>>).isValid
    ]_vars

\* the blocks of the sequence that hold a transaction with the id and at
\* least index + 1 outputs
Creators(blocks, input) ==
  {i \in 1..Len(blocks) :
     \E k \in 1..Len(blocks[i].transactions) :
        /\ blocks[i].transactions[k].id = input.txId
        /\ input.index < Len(blocks[i].transactions[k].outputs)}

\* every stored output with a spender: the spender is stored, in a block at
\* least as high as the block of the output
SpenderNotBelow(d) ==
  \A r \in CommittedRows(d.outputs) :
     r.spent_in_transaction_id # NULL =>
       \E s \in CommittedRows(d.transactions) :
          /\ s.id = r.spent_in_transaction_id
          /\ r.block_height <= s.block_height

\* every input of the blocks references an output created by one of the
\* blocks, not higher than the block of the input
CreatedBefore(blocks) ==
  \A i \in 1..Len(blocks) :
     \A k \in 1..Len(AllInputs(blocks[i])) :
        \E j \in Creators(blocks, AllInputs(blocks[i])[k]) :
           blocks[j].height <= blocks[i].height

\* C22: in every state, for each stored output with a spender, the spender
\* is stored in a block at least as high as the block of the output; and
\* every input of a committed block references an output created by a
\* committed block that is not higher than the block of the input.
C22_NoForwardReference ==
  SpenderNotBelow(db) /\ CreatedBefore(chain)

\* ------------------------------------------------------------------------
\* Rollbacks of ledgers one block higher than MAX_ROLLBACK_BLOCKS (SpecDepth)
\* ------------------------------------------------------------------------
DepthHeight == MAX_ROLLBACK_BLOCKS + 1

\* the blocks of a height: empty, a coinbase paying a, or (above height 1) a
\* spend of output 0 of the transaction of the height below, paying b
DepthTransaction(h, inputs, address) ==
  [id |-> "t" \o ToString(h), inputs |-> inputs,
   outputs |-> <<[address |-> address, value |-> 1]>>]

DepthTransactionSeqs(h) ==
  {<<>>, <<DepthTransaction(h, <<>>, "a")>>}
    \cup (IF h = 1 THEN {}
          ELSE {<<DepthTransaction(
                    h, <<[txId |-> "t" \o ToString(h - 1), index |-> 0]>>,
                    "b")>>})

DepthBlocks(h) ==
  {Block(calculateBlockId(h, txs), h, txs) : txs \in DepthTransactionSeqs(h)}

\* the chains of those blocks that processBlock accepts block by block
DepthChains ==
  {c \in UNION {[1..n -> UNION {DepthBlocks(h) : h \in 1..DepthHeight}] :
                  n \in 0..DepthHeight} :
     /\ \A h \in 1..Len(c) : c[h] \in DepthBlocks(h)
     /\ getCurrentHeight(Replay(EmptyDb, c)) = Len(c)}

InitDepth ==
  /\ \E c \in DepthChains :
       /\ chain = c
       /\ db = Replay(EmptyDb, c)
  /\ last = NoCall
  /\ rollbacks = 0
  /\ call = [w \in Workers |-> Idle]
  /\ db0 = EmptyDb
  /\ vin = NoInput
  /\ vout = None
  /\ hout = None
  /\ ret = NoResult
  /\ undone = {}

NextDepth ==
  \/ \E targetHeight \in (0 - 1)..(DepthHeight + 1) :
       RollbackToHeight(targetHeight)
  \/ Reply

SpecDepth == InitDepth /\ [][NextDepth]_vars

\* C17: a rollback request with 0 <= targetHeight < currentHeight is
\* rejected as too deep exactly when currentHeight - targetHeight exceeds
\* MAX_ROLLBACK_BLOCKS; up to that depth it is performed, and a request
\* rejected as too deep leaves the tables as they were.
C17_DepthLimit ==
  [][(/\ last = NoCall /\ last'.op = "rollbackToHeight"
      /\ last'.arg >= 0 /\ last'.arg < getCurrentHeight(db)) =>
       LET depth == getCurrentHeight(db) - last'.arg
       IN /\ last'.code = "TOO_MANY_BLOCKS" <=> depth > MAX_ROLLBACK_BLOCKS
          /\ depth <= MAX_ROLLBACK_BLOCKS =>
               (last'.code = OK /\ getCurrentHeight(db') = last'.arg)
          /\ depth > MAX_ROLLBACK_BLOCKS => db' = db]_vars

C17_Witness ==
  /\ last.op = "rollbackToHeight" /\ last.code = OK
  /\ last.before - last.arg = MAX_ROLLBACK_BLOCKS
  /\ undone # {}

C17_Rejected ==
  /\ last.op = "rollbackToHeight" /\ last.code = "TOO_MANY_BLOCKS"
  /\ last.before - last.arg = MAX_ROLLBACK_BLOCKS + 1

\* ------------------------------------------------------------------------
\* validateBlock on its own (SpecValidate)
\* ------------------------------------------------------------------------
MaxTotal == 3

ValidateBlocks == UNION {BlocksAt[h] : h \in 1..(MaxHeight + 1)} \cup SmallBlocks

\* what validateInputsExist can return
InputValidations ==
  {[isValid |-> FALSE, totalInputValue |-> 0]}
    \cup [isValid : {TRUE}, totalInputValue : 0..MaxTotal]

InitValidate ==
  /\ db = EmptyDb
  /\ last = NoCall
  /\ chain = <<>>
  /\ rollbacks = 0
  /\ call = [w \in Workers |-> Idle]
  /\ db0 = EmptyDb
  /\ vin \in [block : ValidateBlocks, currentHeight : 0..MaxHeight,
              inputValidation : InputValidations]
  /\ vout = None
  /\ hout = None
  /\ ret = NoResult
  /\ undone = {}

Validate ==
  /\ vout = None
  /\ vout' = validateBlock(vin.block, vin.currentHeight, vin.inputValidation)
  /\ hout' = validateBlockHeight(vin.block, vin.currentHeight)
  /\ UNCHANGED <<db, last, chain, rollbacks, call, db0, vin, ret, undone>>

NextValidate == Validate

SpecValidate == InitValidate /\ [][NextValidate]_vars

IdFails == ~validateBlockId(vin.block)
HeightFails == vin.block.height # vin.currentHeight + 1
InputsFail == ~vin.inputValidation.isValid

SpendingTransactions(block) ==
  SelectSeq(block.transactions, LAMBDA t : Len(t.inputs) > 0)

IdHeights == {1, 11}
IdStrings == {"1", "a", "aa"}

IdTransactions == {[id |-> i, inputs |-> <<>>, outputs |-> <<>>] : i \in IdStrings}

IdArguments ==
  [height : IdHeights,
   transactions : {<<>>} \cup {<<t>> : t \in IdTransactions}
                         \cup {<<t, u>> : t, u \in IdTransactions}]

InitBlockId ==
  /\ db = EmptyDb
  /\ last = NoCall
  /\ chain = <<>>
  /\ rollbacks = 0
  /\ call = [w \in Workers |-> Idle]
  /\ db0 = EmptyDb
  /\ vin \in [first : IdArguments, second : IdArguments]
  /\ vout = None
  /\ hout = None
  /\ ret = NoResult
  /\ undone = {}

\* both functions applied to both argument pairs
ComputeIds ==
  /\ ret = NoResult
  /\ ret' = [ids |-> [first |-> calculateBlockId(vin.first.height,
                                                 vin.first.transactions),
                      second |-> calculateBlockId(vin.second.height,
                                                  vin.second.transactions)],
             hashes |-> [first |-> calculateBlockHash(vin.first),
                         second |-> calculateBlockHash(vin.second)]]
  /\ UNCHANGED <<db, last, chain, rollbacks, call, db0, vin, vout, hout,
                 undone>>

NextBlockId == ComputeIds

SpecBlockId == InitBlockId /\ [][NextBlockId]_vars

\* the ids of the transactions, in order
IdsOf(transactions) == [k \in 1..Len(transactions) |-> transactions[k].id]

\* the sequences have the same length and differ at exactly one position
OneIdDiffers(ids, jds) ==
  /\ Len(ids) = Len(jds)
  /\ Cardinality({k \in 1..Len(ids) : ids[k] # jds[k]}) = 1

\* C25 as stated: two argument pairs with the same block id have the same
\* height and the same sequence of transaction ids.
C25_BlockIdInjective ==
  (ret # NoResult /\ ret.ids.first = ret.ids.second) =>
    /\ vin.first.height = vin.second.height
    /\ IdsOf(vin.first.transactions) = IdsOf(vin.second.transactions)

\* C25 as amended: the block id (and the block hash, which is the same
\* value) is equal for equal arguments, and different when only the height
\* differs or when, at the same height, exactly one transaction id differs;
\* argument pairs that differ otherwise have the same id exactly when the
\* decimal height followed by the ids spells the same string.
C25_BlockIdFunction ==
  ret # NoResult =>
    LET h == vin.first.height
        g == vin.second.height
        ids == IdsOf(vin.first.transactions)
        jds == IdsOf(vin.second.transactions)
    IN /\ ret.hashes = ret.ids
       /\ (h = g /\ ids = jds) => ret.ids.first = ret.ids.second
       /\ (h # g /\ ids = jds) => ret.ids.first # ret.ids.second
       /\ (h = g /\ OneIdDiffers(ids, jds)) => ret.ids.first # ret.ids.second
       /\ ret.ids.first = ret.ids.second
            <=> ToString(h) \o JoinIds(vin.first.transactions)
                  = ToString(g) \o JoinIds(vin.second.transactions)

C25_Witness ==
  /\ ret # NoResult
  /\ vin.first.height # vin.second.height
  /\ Len(vin.first.transactions) = 2
  /\ IdsOf(vin.first.transactions) = IdsOf(vin.second.transactions)
  /\ ret.ids.first # ret.ids.second

\* ------------------------------------------------------------------------
\* Concurrent calls: every await of a call is a step of its worker
\* (SpecRace: processBlock calls; SpecConc: with rollbackToHeight calls)
\* ------------------------------------------------------------------------
Genesis ==
  LET txs == <<[id |-> "t1", inputs |-> <<>>,
                outputs |-> <<[address |-> "a", value |-> 1]>>]>>
  IN Block(calculateBlockId(1, txs), 1, txs)

EmptyBlock(h) == Block(calculateBlockId(h, <<>>), h, <<>>)

\* the chains the concurrent calls start from
ConcChains == {<<Genesis>>, <<Genesis, EmptyBlock(2)>>}

\* the blocks submitted concurrently: empty, or one new transaction that is a
\* coinbase or spends output 0 of Genesis or of the other new transaction;
\* the id is the computed one
ConcTransactions ==
  {t \in PairTransactions :
     /\ t.id # "t1"
     /\ \A k \in 1..Len(t.inputs) : t.inputs[k].txId # t.id}

ConcBlocks ==
  {Block(calculateBlockId(h, txs), h, txs) :
     h \in 1..(MaxHeight + 1),
     txs \in {<<>>} \cup {<<t>> : t \in ConcTransactions}}

\* the workers serving POST /blocks and the one serving POST /rollback
BlockWorkers == {"w1", "w2"}
RollbackWorkers == Workers \ BlockWorkers

InitConc ==
  /\ \E c \in ConcChains :
       /\ chain = c
       /\ db = Replay(EmptyDb, c)
       /\ db0 = Replay(EmptyDb, c)
  /\ last = NoCall
  /\ rollbacks = 0
  /\ call = [w \in Workers |-> Idle]
  /\ vin = NoInput
  /\ vout = None
  /\ hout = None
  /\ ret = NoResult
  /\ undone = {}

seq == <<last, rollbacks, db0, vin, vout, hout, ret, undone>>

Done(c, code) == [c EXCEPT !.pc = "done", !.code = code]

\* the result of validateInputsExist is kept, then validateBlock, then either
\* the throw or the call of BlockModel.insert
AfterInputs(c, inputValidation) ==
  LET validationError ==
        validateBlock(c.block, c.currentHeight, inputValidation)
  IN IF validationError # OK
       THEN Done([c EXCEPT !.inputValidation = inputValidation],
                 validationError)
     ELSE [c EXCEPT !.pc = "insert", !.stmts = InsertStmts(c.block),
                    !.sel = {}, !.inputValidation = inputValidation]

\* processBlock begins: await BlockModel.getCurrentHeight()
StartProcessBlock(w, block) ==
  /\ call[w].op = "idle"
  /\ LET c == [Idle EXCEPT !.op = "processBlock", !.pc = "inputs",
                           !.block = block,
                           !.currentHeight = getCurrentHeight(db),
                           !.inputs = AllInputs(block)]
     IN call' = [call EXCEPT ![w] =
                   IF c.inputs = <<>>
                     THEN AfterInputs(c, validateInputsExist(db, <<>>))
                     ELSE c]
  /\ UNCHANGED <<db, chain, seq>>

\* one pool query of validateInputsExist
ValidateInput(w) ==
  /\ call[w].pc = "inputs"
  /\ LET c == call[w]
         r == ValidateInputsFrom(db, <<Head(c.inputs)>>, c.total)
     IN call' = [call EXCEPT ![w] =
                   IF ~r.isValid \/ Tail(c.inputs) = <<>>
                     THEN AfterInputs(c, r)
                     ELSE [c EXCEPT !.inputs = Tail(c.inputs),
                                    !.total = r.totalInputValue]]
  /\ UNCHANGED <<db, chain, seq>>

\* one statement of BlockModel.insert on the worker's client
InsertStep(w) ==
  /\ call[w].pc = "insert"
  /\ LET c == call[w]
         r == Caught(ExecInsert(db, c.sel, w, c.block, Head(c.stmts)), w)
     IN /\ r.status # "wait"
        /\ db' = r.db
        /\ call' = [call EXCEPT ![w] =
                      IF r.status = "error" THEN Done(c, "ERROR")
                      ELSE IF Tail(c.stmts) = <<>> THEN Done(c, OK)
                      ELSE [c EXCEPT !.stmts = Tail(c.stmts), !.sel = r.sel]]
        /\ chain' = IF r.status = "ok" /\ Tail(c.stmts) = <<>>
                      THEN Append(chain, c.block) ELSE chain
  /\ UNCHANGED seq

NextRace ==
  \E w \in BlockWorkers :
     \/ \E block \in ConcBlocks : StartProcessBlock(w, block)
     \/ ValidateInput(w)
     \/ InsertStep(w)

SpecRace == InitConc /\ [][NextRace]_vars

\* rollbackToHeight begins: await getCurrentHeight(), the two tests
StartRollback(w, targetHeight) ==
  /\ call[w].op = "idle"
  /\ LET currentHeight == getCurrentHeight(db)
         c == [Idle EXCEPT !.op = "rollbackToHeight", !.pc = "select",
                           !.target = targetHeight,
                           !.currentHeight = currentHeight]
     IN call' = [call EXCEPT ![w] =
                   IF targetHeight > currentHeight
                     THEN Done(c, "TARGET_ABOVE_CURRENT")
                   ELSE IF currentHeight - targetHeight > MAX_ROLLBACK_BLOCKS
                     THEN Done(c, "TOO_MANY_BLOCKS")
                   ELSE c]
  /\ UNCHANGED <<db, chain, seq>>

\* BEGIN; SELECT id, height FROM blocks WHERE height > $1 ORDER BY height DESC
RollbackSelect(w) ==
  /\ call[w].pc = "select"
  /\ call' = [call EXCEPT ![w] =
                [@ EXCEPT !.pc = "blocks",
                          !.blocks =
                            SelectBlocksToRollback(db, w, call[w].target)]]
  /\ UNCHANGED <<db, chain, seq>>

\* await transactionModel.rollbackBlock(client, block.id, block.height)
RollbackBlock(w) ==
  /\ call[w].pc = "blocks"
  /\ call[w].blocks # <<>>
  /\ LET c == call[w]
         r == rollbackBlock(db, w, Head(c.blocks).id, Head(c.blocks).height)
     IN /\ r.status = "ok"
        /\ db' = r.db
        /\ call' = [call EXCEPT ![w] = [c EXCEPT !.blocks = Tail(c.blocks)]]
  /\ UNCHANGED <<chain, seq>>

\* DELETE FROM blocks WHERE height > $1
RollbackDelete(w) ==
  /\ call[w].pc = "blocks"
  /\ call[w].blocks = <<>>
  /\ LET r == DeleteBlocks(db, w, call[w].target)
     IN /\ r.status = "ok"
        /\ db' = r.db
        /\ call' = [call EXCEPT ![w] = [@ EXCEPT !.pc = "commit"]]
  /\ UNCHANGED <<chain, seq>>

AtMost(blocks, h) == SelectSeq(blocks, LAMBDA b : b.height <= h)

\* COMMIT
RollbackCommit(w) ==
  /\ call[w].pc = "commit"
  /\ db' = CommitTx(db, w)
  /\ call' = [call EXCEPT ![w] = Done(@, OK)]
  /\ chain' = AtMost(chain, call[w].target)
  /\ UNCHANGED seq

\* how the statement worker w is about to issue ends on tables d
Pending(d, w) ==
  LET c == call[w]
  IN IF c.pc = "insert"
       THEN ExecInsert(d, c.sel, w, c.block, Head(c.stmts)).status
     ELSE IF c.pc = "blocks" /\ c.blocks # <<>>
       THEN rollbackBlock(d, w, Head(c.blocks).id, Head(c.blocks).height).status
     ELSE IF c.pc = "blocks" THEN DeleteBlocks(d, w, c.target).status
     ELSE "ok"

RECURSIVE AbortAll(_, _)
AbortAll(d, ws) ==
  IF ws = {} THEN d
  ELSE LET u == CHOOSE x \in ws : TRUE IN AbortAll(AbortTx(d, u), ws \ {u})

\* w waits for a lock that the open transaction of u holds
WaitsFor(w, u) ==
  /\ u # w
  /\ Pending(db, w) = "wait"
  /\ Pending(AbortAll(db, Workers \ {w, u}), w) = "wait"

Deadlocked(w) ==
  \E u \in Workers :
     /\ WaitsFor(w, u)
     /\ \/ WaitsFor(u, w)
        \/ \E v \in Workers : WaitsFor(u, v) /\ WaitsFor(v, w)

\* PostgreSQL ends a lock cycle by failing the statement of one transaction
\* in it ("deadlock detected"); the catch block issues ROLLBACK and rethrows.
DeadlockDetected(w) ==
  /\ Deadlocked(w)
  /\ db' = AbortTx(db, w)
  /\ call' = [call EXCEPT ![w] = Done(@, "ERROR")]
  /\ UNCHANGED <<chain, seq>>

NextConc ==
  \/ \E w \in BlockWorkers :
       \/ \E block \in ConcBlocks : StartProcessBlock(w, block)
       \/ ValidateInput(w)
       \/ InsertStep(w)
  \/ \E w \in RollbackWorkers :
       \/ \E targetHeight \in 0..MaxHeight : StartRollback(w, targetHeight)
       \/ RollbackSelect(w)
       \/ RollbackBlock(w)
       \/ RollbackDelete(w)
       \/ RollbackCommit(w)
  \/ \E w \in Workers : DeadlockDetected(w)

SpecConc == InitConc /\ [][NextConc]_vars

\* ------------------------------------------------------------------------
\* Properties of concurrent calls (SpecRace, SpecConc)
\* ------------------------------------------------------------------------
Quiet == \A w \in Workers : call[w].pc \in {"idle", "done"}

Winners == {call[w].block : w \in {u \in Workers : call[u].code = OK
                                      /\ call[u].op = "processBlock"}}

RECURSIVE ByHeight(_)
ByHeight(blocks) ==
  IF blocks = {} THEN <<>>
  ELSE LET b == CHOOSE x \in blocks : \A y \in blocks : x.height <= y.height
       IN <<b>> \o ByHeight(blocks \ {b})

\* C7: of two processBlock calls for blocks of the same height that run
\* concurrently at most one commits; a call never waits for a lock that no
\* open transaction will release; and once the calls have ended the tables
\* are those obtained by applying only the blocks of the calls that
\* succeeded, so a call that ended with an error left nothing behind.
C7_OneWinner ==
  /\ \A w, u \in BlockWorkers :
       (w # u /\ call[w].pc = "done" /\ call[u].pc = "done"
          /\ call[w].block.height = call[u].block.height)
         => ~(call[w].code = OK /\ call[u].code = OK)
  /\ \A w \in BlockWorkers :
       Pending(db, w) = "wait"
         => (~Deadlocked(w) /\ \E u \in BlockWorkers : WaitsFor(w, u))
  /\ Quiet => db = Replay(db0, ByHeight(Winners))

C7_Witness ==
  \E w, u \in BlockWorkers :
     /\ call[w].code = OK /\ call[u].code = "ERROR"
     /\ call[w].block.height = call[u].block.height
     /\ call[w].currentHeight = call[u].currentHeight
     /\ call[w].block.transactions # <<>>
     /\ call[u].block.transactions # <<>>
     /\ call[w].block # call[u].block

SpenderOf(d, key) ==
  {r.spent_in_transaction_id :
     r \in {o \in CommittedRows(d.outputs) :
              /\ o.transaction_id = key.txId /\ o.output_index = key.index
              /\ o.spent_in_transaction_id # NULL}}

\* C8: whatever the interleaving of processBlock and rollbackToHeight calls,
\* the committed blocks hold at most one input for each output, and the
\* committed spender reference of an output is never replaced by another
\* spender.
C8_SingleSpender ==
  [][\A key \in Keys :
       /\ Uses(ChainInputs(chain'), key) <= 1
       /\ \A t \in SpenderOf(db, key) : SpenderOf(db', key) \subseteq {t}]_vars

Ledger(d) == [view |-> LedgerView(d), heights |-> Heights(d)]

\* the ledgers the two calls leave when one runs after the other has ended
SerialLedgers(block, targetHeight) ==
  {Ledger(rollbackToHeight(processBlock(db0, Client, block).db,
                           Client, targetHeight).db),
   Ledger(processBlock(rollbackToHeight(db0, Client, targetHeight).db,
                       Client, block).db)}

\* the ledger one call alone leaves, for a call of the pair that failed
AloneLedgers(p, r) ==
  (IF call[p].code = "ERROR"
     THEN {Ledger(rollbackToHeight(db0, Client, call[r].target).db)} ELSE {})
  \cup
  (IF call[r].code = "ERROR"
     THEN {Ledger(processBlock(db0, Client, call[p].block).db)} ELSE {})

\* C9: when one processBlock call and one rollbackToHeight call have run
\* interleaved, the committed ledger (heights, balances, outputs, spent
\* flags) is the one that some serial order of the two calls produces.
C9_Serializable ==
  \A p \in BlockWorkers, r \in RollbackWorkers :
     (/\ call[p].pc = "done" /\ call[r].pc = "done"
      /\ \A w \in Workers \ {p, r} : call[w].op = "idle")
       => Ledger(db) \in SerialLedgers(call[p].block, call[r].target)
                           \cup AloneLedgers(p, r)

\* ------------------------------------------------------------------------
\* Reads during one unit of work (SpecRead): the unit worker runs one
\* processBlock or one rollbackToHeight call, the other worker a
\* processBlock call whose input check issues two pool queries.  The reading
\* call writes only after the torn check or after the unit has ended, so no
\* lock cycle arises between the two.
\* ------------------------------------------------------------------------
UnitWorker == "w3"
ReadWorker == "w1"

Spend(h, id, inputs, value) ==
  LET txs == <<[id |-> id, inputs |-> inputs,
                outputs |-> <<[address |-> "b", value |-> value]>>]>>
  IN Block(calculateBlockId(h, txs), h, txs)

\* the ledgers the calls start from: Genesis, or Genesis and the block whose
\* transaction t2 spends the output of Genesis
ReadChains ==
  {<<Genesis>>,
   <<Genesis, Spend(2, "t2", <<[txId |-> "t1", index |-> 0]>>, 1)>>}

\* the block of the unit of work: t2 spending the output of Genesis
UnitBlocks ==
  {Spend(h, "t2", <<[txId |-> "t1", index |-> 0]>>, 1) :
     h \in 2..(MaxHeight + 1)}

\* the block of the reading call: t3 spending the outputs of t1 and t2
ReadBlocks ==
  {Spend(h, "t3", inputs, 2) :
     h \in 2..(MaxHeight + 1),
     inputs \in {<<[txId |-> "t1", index |-> 0], [txId |-> "t2", index |-> 0]>>,
                 <<[txId |-> "t2", index |-> 0], [txId |-> "t1", index |-> 0]>>}}

InitRead ==
  /\ \E c \in ReadChains :
       /\ chain = c
       /\ db = Replay(EmptyDb, c)
       /\ db0 = Replay(EmptyDb, c)
  /\ last = NoCall
  /\ rollbacks = 0
  /\ call = [w \in Workers |-> Idle]
  /\ vin = NoInput
  /\ vout = None
  /\ hout = None
  /\ ret = NoResult
  /\ undone = {}

NextRead ==
  \/ \E block \in ReadBlocks : StartProcessBlock(ReadWorker, block)
  \/ \E block \in UnitBlocks : StartProcessBlock(UnitWorker, block)
  \/ \E targetHeight \in 0..MaxHeight : StartRollback(UnitWorker, targetHeight)
  \/ \E w \in {ReadWorker, UnitWorker} :
       \/ ValidateInput(w)
       \/ InsertStep(w)
  \/ RollbackSelect(UnitWorker)
  \/ RollbackBlock(UnitWorker)
  \/ RollbackDelete(UnitWorker)
  \/ RollbackCommit(UnitWorker)

SpecRead == InitRead /\ [][NextRead]_vars

\* the ledger after the whole unit of work, run alone on the ledger the
\* calls started from
AfterUnit ==
  LET c == call[UnitWorker]
  IN IF c.op = "rollbackToHeight" /\ c.pc # "done"
       THEN BlockModel_rollbackToHeight(db0, UnitWorker, c.target).db
     ELSE IF c.op = "rollbackToHeight" /\ c.code = OK
       THEN BlockModel_rollbackToHeight(db0, UnitWorker, c.target).db
     ELSE IF c.op = "processBlock" /\ (c.pc = "insert" \/ c.code = OK)
       THEN BlockModel_insert(db0, UnitWorker, c.block).db
     ELSE db0

\* the reading call has not issued a statement of its own BlockModel.insert
OnlyRead ==
  LET c == call[ReadWorker]
  IN \/ c.pc \in {"idle", "inputs"}
     \/ c.pc = "insert" /\ c.stmts = InsertStmts(c.block)
     \/ c.pc = "done" /\ c.code \in ValidationCodes

\* the reading call has its input check behind it
Checked ==
  /\ OnlyRead
  /\ call[ReadWorker].pc \in {"insert", "done"}

\* C23: while one BlockModel.insert or BlockModel.rollbackToHeight runs,
\* the height, balances and spent flags a pool query returns are those
\* before or those after the whole unit of work, and so are the height the
\* other processBlock call read and the result of its input check.
C23_NoIntermediateRead ==
  OnlyRead =>
    /\ LedgerView(db) \in {LedgerView(db0), LedgerView(AfterUnit)}
    /\ call[ReadWorker].op = "processBlock" =>
         call[ReadWorker].currentHeight
           \in {getCurrentHeight(db0), getCurrentHeight(AfterUnit)}
    /\ Checked =>
         call[ReadWorker].inputValidation
           \in {validateInputsExist(db0, AllInputs(call[ReadWorker].block)),
                validateInputsExist(AfterUnit,
                                    AllInputs(call[ReadWorker].block))}

\* ------------------------------------------------------------------------
\* Properties of Spec: the effects of an accepted block and of a rollback
\* ------------------------------------------------------------------------
\* C31: after every successful processBlock(block) the block row (id,
\* height) is stored; for each transaction and each of its inputs the
\* referenced output is spent with that transaction as its spender; for
\* each transaction and each output index i the output (transaction id, i)
\* is stored with the listed address and value, unspent, at the height of
\* the block; and the call returns {blockId, height} of the block.
C31_InsertEffects ==
  [][(last = NoCall /\ last'.op = "processBlock" /\ last'.code = OK) =>
       /\ \E b \in CommittedRows(db'.blocks) :
            b.id = vin'.block.id /\ b.height = vin'.block.height
       /\ \A k \in 1..Len(vin'.block.transactions) :
            /\ \A i \in 1..Len(vin'.block.transactions[k].inputs) :
                 \E r \in Referenced(db', vin'.block.transactions[k].inputs[i]) :
                   /\ r.is_spent
                   /\ r.spent_in_transaction_id = vin'.block.transactions[k].id
            /\ \A i \in 1..Len(vin'.block.transactions[k].outputs) :
                 \E r \in CommittedRows(db'.outputs) :
                   /\ r.transaction_id = vin'.block.transactions[k].id
                   /\ r.output_index = i - 1
                   /\ r.address = vin'.block.transactions[k].outputs[i].address
                   /\ r.value = vin'.block.transactions[k].outputs[i].value
                   /\ ~r.is_spent
                   /\ r.block_height = vin'.block.height
       /\ ret' = [blockId |-> vin'.block.id, height |-> vin'.block.height]]_vars

\* C33: a block with no transactions, whose id is the hash of its height
\* string and whose height is the current height plus one, is accepted
\* (by processBlock in every state between calls, and by every call whose
\* statements all succeed in the database); the call raises the current
\* height by exactly one and leaves the transactions, the outputs and the
\* balances as they were.
EmptyBlockEffects(before, after) ==
  /\ getCurrentHeight(after) = getCurrentHeight(before) + 1
  /\ CommittedRows(after.transactions) = CommittedRows(before.transactions)
  /\ CommittedRows(after.outputs) = CommittedRows(before.outputs)
  /\ CommittedRows(after.address_balances) =
       CommittedRows(before.address_balances)

BlocksUpTo(d, k) == {b \in CommittedRows(d.blocks) : b.height <= k}

TransactionsUpTo(d, k) ==
  {t \in CommittedRows(d.transactions) : t.block_height <= k}

SurvivingOutputs(d, k) ==
  {r \in CommittedRows(d.outputs) : r.block_height <= k}

RemovedOutputs(d, k) ==
  {r \in CommittedRows(d.outputs) : r.block_height > k}

RemovedTransactionIds(d, k) ==
  {t.id : t \in CommittedRows(d.transactions) \ TransactionsUpTo(d, k)}

SpentByRemoved(d, k) ==
  {r \in SurvivingOutputs(d, k) :
     r.is_spent /\ r.spent_in_transaction_id \in RemovedTransactionIds(d, k)}

C35_RollbackFrame ==
  [][(last = NoCall /\ last'.op = "rollbackToHeight" /\ last'.code = OK) =>
       /\ BlocksUpTo(db', last'.arg) = BlocksUpTo(db, last'.arg)
       /\ TransactionsUpTo(db', last'.arg) = TransactionsUpTo(db, last'.arg)
       /\ SurvivingOutputs(db', last'.arg) =
            (SurvivingOutputs(db, last'.arg) \ SpentByRemoved(db, last'.arg))
              \cup {[r EXCEPT !.is_spent = FALSE,
                              !.spent_in_transaction_id = NULL] :
                       r \in SpentByRemoved(db, last'.arg)}
       /\ \A address \in Addresses :
            getAddressBalance(db', address) # getAddressBalance(db, address)
              => \E r \in RemovedOutputs(db, last'.arg)
                            \cup SpentByRemoved(db, last'.arg) :
                     r.address = address]_vars

\* a rollback from height 2 to height 1 that removed t2: the output (t1,0)
\* of address a survives unspent with no spender, a holds its value again
\* and b, credited by t2, holds nothing
C35_Witness ==
  /\ last.op = "rollbackToHeight"
  /\ last.code = OK
  /\ last.arg = 1
  /\ last.before = 2
  /\ undone = {"t2"}
  /\ \E r \in CommittedRows(db.outputs) :
       /\ r.transaction_id = "t1" /\ r.output_index = 0
       /\ r.address = "a" /\ r.value = 1 /\ r.block_height = 1
       /\ ~r.is_spent /\ r.spent_in_transaction_id = NULL
  /\ getAddressBalance(db, "a") = 1
  /\ \E r \in CommittedRows(db.address_balances) :
       r.address = "b" /\ r.balance = 0

\* C36: in every state reached by processBlock and rollbackToHeight calls
\* every address balance is at least 0, so getAddressBalance never returns
\* a negative number.
C36_NonNegativeBalances ==
  \A address \in Addresses : getAddressBalance(db, address) >= 0

\* C37: in every state reached by processBlock and rollbackToHeight calls
\* the sum of all address balances equals the sum of the output values of
\* the transactions without inputs in the stored blocks.
RECURSIVE CoinbaseValue(_)
CoinbaseValue(blocks) ==
  IF blocks = <<>> THEN 0
  ELSE TotalOutputValue(Head(blocks).transactions)
         - RegularOutputValue(Head(blocks).transactions)
         + CoinbaseValue(Tail(blocks))

RECURSIVE SumBalances(_, _)
SumBalances(d, addresses) ==
  IF addresses = {} THEN 0
  ELSE LET address == CHOOSE a \in addresses : TRUE
       IN getAddressBalance(d, address)
            + SumBalances(d, addresses \ {address})

C37_ValueConservation ==
  SumBalances(db, Addresses) = CoinbaseValue(chain)

\* C38: after a successful rollbackToHeight(k) of a ledger of accepted
\* blocks B1..Bn, k < n, processBlock of B(k+1), ..., Bn in their order
\* accepts each block and ends with the balances, the stored outputs with
\* their spent flags and spenders, and the height n of before the rollback.
RECURSIVE AcceptsAll(_, _)
AcceptsAll(d, blocks) ==
  \/ blocks = <<>>
  \/ \E r \in {processBlock(d, Client, Head(blocks))} :
       r.code = OK /\ AcceptsAll(r.db, Tail(blocks))

SpendView(d) ==
  [height |-> getCurrentHeight(d),
   balances |-> [a \in Addresses |-> getAddressBalance(d, a)],
   outputs |-> {[transaction_id |-> r.transaction_id,
                 output_index |-> r.output_index,
                 address |-> r.address, value |-> r.value,
                 is_spent |-> r.is_spent,
                 spent_in_transaction_id |-> r.spent_in_transaction_id] :
                  r \in CommittedRows(d.outputs)}]

C38_RollbackReplay ==
  [][(/\ last = NoCall
      /\ last'.op = "rollbackToHeight"
      /\ last'.code = OK
      /\ last'.arg < last'.before) =>
       /\ AcceptsAll(db', SubSeq(chain, last'.arg + 1, Len(chain)))
       /\ SpendView(Replay(db', SubSeq(chain, last'.arg + 1, Len(chain))))
            = SpendView(db)]_vars

\* ------------------------------------------------------------------------
\* src/src/controllers/blockchain.controller.ts: the errors processBlock
\* throws and what FastifyBlockchainController.processBlock makes of them.
\* A text is the sequence of its pieces. A caller-supplied string (a block
\* id, a transaction id) is one piece, and the strings drawn below either
\* are one of the searched codes or share no part with any of them, so
\* String.includes is the search for a piece.
\* ------------------------------------------------------------------------
Separator == ": "

includes(text, searchString) ==
  \E i \in 1..Len(text) : text[i] = searchString

\* text.split(': ')[1]: the pieces between the first and the second
\* separator; no value (the empty set) when the text has no separator
split(text) ==
  IF ~includes(text, Separator) THEN {}
  ELSE LET first == CHOOSE i \in 1..Len(text) :
                       /\ text[i] = Separator
                       /\ \A j \in 1..(i - 1) : text[j] # Separator
           rest == SubSeq(text, first + 1, Len(text))
       IN IF ~includes(rest, Separator) THEN {rest}
          ELSE {SubSeq(rest, 1,
                       (CHOOSE i \in 1..Len(rest) :
                          /\ rest[i] = Separator
                          /\ \A j \in 1..(i - 1) : rest[j] # Separator) - 1)}

\* the message validateBlock returns with the code (the three messages of
\* INVALID_BALANCE differ in their fixed words only)
validateBlockMessage(code, v) ==
  CASE code = "INVALID_BLOCK_ID" ->
         <<"Block ID ", v.block.id, " does not match expected ID ",
           calculateBlockId(v.block.height, v.block.transactions)>>
    [] code = "INVALID_HEIGHT" ->
         <<"Block height ", ToString(v.block.height),
           " is not exactly one unit higher than current height ",
           ToString(v.currentHeight)>>
    [] code = "INVALID_INPUTS" ->
         <<"One or more inputs reference non-existent or already spent outputs">>
    [] code = "INVALID_BALANCE" ->
         <<"Sum of inputs (", ToString(v.inputValidation.totalInputValue),
           ") does not equal sum of outputs">>

\* throw new Error(`${validationError.code}: ${validationError.message}`)
ServiceError(code, message) == [message |-> <<code, Separator>> \o message]

\* the error BlockModel.insert rethrows: the one of its own test of the
\* block, the one of insertWithClient's test of the transaction, or the
\* database's
insertError(d, w, block) ==
  LET stmts == InsertStmts(block)
      failing == {k \in 1..Len(stmts) :
                    RunStmts(d, {}, w, block, SubSeq(stmts, 1, k)).status
                      = "error"}
      s == stmts[CHOOSE k \in failing : \A j \in failing : k <= j]
  IN IF s.op = "selectBlock"
       THEN [message |-> <<"Block with ID ", block.id, " or height ",
                           ToString(block.height), " already exists">>]
     ELSE IF s.op = "selectTx"
       THEN [message |-> <<"Transaction with ID ", s.tx, " already exists">>]
     ELSE [message |-> <<"duplicate key value violates unique constraint">>]

\* the error of a processBlock that ended as r
processBlockError(d, w, block, r) ==
  IF r.validationError # OK
    THEN ServiceError(r.validationError,
                      validateBlockMessage(r.validationError, r.validated))
    ELSE insertError(d, w, block)

\* the catch block of FastifyBlockchainController.processBlock
FastifyBlockchainController_processBlock(apiError) ==
  IF includes(apiError.message, "INVALID_HEIGHT")
    THEN [code |-> "INVALID_HEIGHT", message |-> split(apiError.message)]
  ELSE IF includes(apiError.message, "INVALID_BLOCK_ID")
    THEN [code |-> "INVALID_BLOCK_ID", message |-> split(apiError.message)]
  ELSE IF includes(apiError.message, "INVALID_INPUTS")
    THEN [code |-> "INVALID_INPUTS", message |-> split(apiError.message)]
  ELSE IF includes(apiError.message, "INVALID_BALANCE")
    THEN [code |-> "INVALID_BALANCE", message |-> split(apiError.message)]
  ELSE [code |-> "INTERNAL_ERROR", message |-> {<<"Failed to process block">>}]

\* ------------------------------------------------------------------------
\* SpecController: POST /blocks answered by the controller, with block and
\* transaction ids that spell validation codes. ret holds the reply: the
\* code and message of the error the controller throws.
\* ------------------------------------------------------------------------
ControllerTxIds == {"t1", "INVALID_INPUTS"}
ControllerBlockIds == {"b1", "INVALID_HEIGHT", "INVALID_BALANCE"}

ControllerTransactions ==
  [id : ControllerTxIds,
   inputs : {<<>>, <<[txId |-> "t1", index |-> 0]>>},
   outputs : {<<[address |-> "a", value |-> 1]>>,
              <<[address |-> "b", value |-> 2]>>}]

ControllerTransactionSeqs ==
  {<<>>} \cup {<<t>> : t \in ControllerTransactions}

ControllerBlocks ==
  UNION {{Block(id, h, txs) :
            id \in {calculateBlockId(h, txs)} \cup ControllerBlockIds} :
           h \in 1..(MaxHeight + 1), txs \in ControllerTransactionSeqs}

Succeeded == [code |-> OK, message |-> {<<"Block processed successfully">>}]

ControllerProcessBlock(block) ==
  /\ last = NoCall
  /\ ~(Validation(db, block) = OK /\ block.height > MaxHeight)
  /\ \E r \in {processBlock(db, Client, block)} :
       /\ db' = r.db
       /\ last' = Call("processBlock", r.code, block.height,
                       getCurrentHeight(db),
                       IF r.code = OK THEN Len(InsertStmts(block)) ELSE 0)
       /\ chain' = IF r.code = OK THEN Append(chain, block) ELSE chain
       /\ vin' = r.validated
       /\ vout' = r.validationError
       /\ ret' = IF r.code = OK THEN Succeeded
                 ELSE FastifyBlockchainController_processBlock(
                        processBlockError(db, Client, block, r))
  /\ UNCHANGED <<rollbacks, undone, others>>

\* POST /blocks when a statement of BlockModel.insert fails in the database
ControllerProcessBlockFailing(block) ==
  /\ last = NoCall
  /\ block.height <= MaxHeight
  /\ Validation(db, block) = OK
  /\ \E k \in 1..(Len(InsertStmts(block)) - 1) :
       \E r \in {BlockModel_insertFailing(db, Client, block, k)} :
          /\ r.status = "error"
          /\ db' = r.db
          /\ last' = Call("processBlock", "ERROR", block.height,
                          getCurrentHeight(db), k - 1)
  /\ vin' = Validated(db, block)
  /\ vout' = OK
  /\ ret' = FastifyBlockchainController_processBlock(
              [message |-> <<"Connection terminated unexpectedly">>])
  /\ UNCHANGED <<chain, rollbacks, undone, others>>

NextController ==
  \/ \E block \in ControllerBlocks : ControllerProcessBlock(block)
  \/ \E block \in ControllerBlocks : ControllerProcessBlockFailing(block)
  \/ Reply

SpecController == Init /\ [][NextController]_vars

\* C34: for every error of processBlock the controller reports exactly the
\* code validateBlock returned, whatever block or transaction id the
\* message embeds, and reports every error without a validation code as
\* INTERNAL_ERROR with the message 'Failed to process block'.
C34_ReportedCode ==
  [][(last = NoCall /\ last'.op = "processBlock" /\ last'.code # OK) =>
       IF vout' # OK
         THEN ret'.code = vout'
         ELSE /\ ret'.code = "INTERNAL_ERROR"
              /\ ret'.message = {<<"Failed to process block">>}]_vars

\* ------------------------------------------------------------------------
\* src/unnamed/part_008 (BlockchainRepository) over the tables of
\* src/unnamed/part_009: blocks, transactions, outputs, balances. The
\* repository-based service runs its calls one at a time here, so a table
\* is the set of its rows. The nullable column spent_in_block_height holds
\* the empty set for NULL and {h} for the height h.
\* ------------------------------------------------------------------------
EmptyTables ==
  [blocks |-> {}, transactions |-> {}, outputs |-> {}, balances |-> {}]

\* an INSERT: the tables after it, or the constraint it violates
Inserted(t) == [error |-> FALSE, tables |-> t]
Violation(t) == [error |-> TRUE, tables |-> t]

\* SELECT COALESCE(MAX(height), 0) FROM blocks
Repository_getCurrentHeight(t) == MaxOf({b.height : b \in t.blocks})

\* blocks: id PRIMARY KEY, height UNIQUE
insertBlock(t, block) ==
  IF \E b \in t.blocks : b.id = block.id \/ b.height = block.height
    THEN Violation(t)
  ELSE Inserted([t EXCEPT !.blocks =
                   @ \cup {[id |-> block.id, height |-> block.height]}])

\* transactions: id PRIMARY KEY, block_id REFERENCES blocks(id)
insertTransaction(t, transaction, blockId, blockHeight) ==
  IF \/ \E x \in t.transactions : x.id = transaction.id
     \/ ~\E b \in t.blocks : b.id = blockId
    THEN Violation(t)
  ELSE Inserted([t EXCEPT !.transactions =
                   @ \cup {[id |-> transaction.id, block_id |-> blockId,
                            block_height |-> blockHeight]}])

\* outputs: PRIMARY KEY (tx_id, idx), tx_id REFERENCES transactions(id)
insertOutput(t, txId, output, index) ==
  IF \/ \E o \in t.outputs : o.tx_id = txId /\ o.idx = index
     \/ ~\E x \in t.transactions : x.id = txId
    THEN Violation(t)
  ELSE Inserted([t EXCEPT !.outputs =
                   @ \cup {[tx_id |-> txId, idx |-> index,
                            address |-> output.address,
                            value |-> output.value, is_spent |-> FALSE,
                            spent_in_block_height |-> {}]}])

\* the rows of the SELECT: none (null) or the one stored output
getOutput(t, txId, index) ==
  {o \in t.outputs : o.tx_id = txId /\ o.idx = index}

markOutputAsSpent(t, txId, index, blockHeight) ==
  [t EXCEPT !.outputs =
     {IF o.tx_id = txId /\ o.idx = index
        THEN [o EXCEPT !.is_spent = TRUE,
                       !.spent_in_block_height = {blockHeight}]
      ELSE o : o \in @}]

\* INSERT ... ON CONFLICT (address) DO UPDATE SET balance = balance + delta
updateBalance(t, address, delta) ==
  [t EXCEPT !.balances =
     IF \E r \in @ : r.address = address
       THEN {IF r.address = address
               THEN [r EXCEPT !.balance = @ + delta] ELSE r : r \in @}
     ELSE @ \cup {[address |-> address, balance |-> delta]}]

\* the stored balance, 0 without a row
getBalance(t, address) ==
  IF \E r \in t.balances : r.address = address
    THEN (CHOOSE r \in t.balances : r.address = address).balance
  ELSE 0

\* DELETE FROM blocks WHERE height > $1, cascading along block_id to the
\* transactions and along tx_id to their outputs
deleteBlocksAfterHeight(t, height) ==
  LET blocks == {b \in t.blocks : ~(b.height > height)}
      transactions ==
        {x \in t.transactions : \E b \in blocks : b.id = x.block_id}
  IN [t EXCEPT !.blocks = blocks,
               !.transactions = transactions,
               !.outputs =
                 {o \in @ : \E x \in transactions : x.id = o.tx_id}]

\* UPDATE outputs SET is_spent = FALSE, spent_in_block_height = NULL
\* WHERE spent_in_block_height > $1 (never true of a NULL)
unmarkOutputsSpentAfterHeight(t, height) ==
  [t EXCEPT !.outputs =
     {IF \E h \in o.spent_in_block_height : h > height
        THEN [o EXCEPT !.is_spent = FALSE, !.spent_in_block_height = {}]
      ELSE o : o \in @}]

\* recalculateBalances without `WHERE is_spent = FALSE`: the balances are
\* summed over all outputs
recalculateBalancesAllOutputs(t) ==
  [t EXCEPT !.balances =
     {[address |-> a,
       balance |-> SumValue({o \in t.outputs : o.address = a})] :
        a \in {o.address : o \in t.outputs}}]

\* DELETE FROM balances; INSERT ... SELECT address, SUM(value) FROM outputs
\* WHERE is_spent = FALSE GROUP BY address
recalculateBalances(t) ==
  [t EXCEPT !.balances =
     {[address |-> a,
       balance |-> SumValue({o \in t.outputs :
                               ~o.is_spent /\ o.address = a})] :
        a \in {o.address : o \in {p \in t.outputs : ~p.is_spent}}}]

\* ------------------------------------------------------------------------
\* src/src/services/validation.ts: the balance of the transactions.
\* getOutputValue is handed over as a table from the referenced (txId,
\* index) to what the callback does there: return a value or throw.
\* ------------------------------------------------------------------------
NoError == [name |-> OK, message |-> "", at |-> <<>>]

\* a thrown ValidationError, with the values its message is built from
ValidationError(message, at) ==
  [name |-> "ValidationError", message |-> message, at |-> at]

Returns(value) == [thrown |-> NoError, value |-> value]
Throws(error) == [thrown |-> error, value |-> 0]

\* inputs.reduce((sum, input) => sum + getOutputValue(...), 0), ended by
\* the first throw of getOutputValue
RECURSIVE calculateInputSum(_, _)
calculateInputSum(inputs, getOutputValue) ==
  IF inputs = <<>> THEN Returns(0)
  ELSE IF getOutputValue[Head(inputs)].thrown # NoError
    THEN Throws(getOutputValue[Head(inputs)].thrown)
  ELSE The({IF rest.thrown # NoError THEN rest
            ELSE Returns(getOutputValue[Head(inputs)].value + rest.value) :
              rest \in {calculateInputSum(Tail(inputs), getOutputValue)}})

calculateOutputSum(transaction) == OutputValueSum(transaction.outputs)

\* validateTransactionBalance with the test `inputSum < outputSum`
validateTransactionBalanceDeficitOnly(transaction, getOutputValue) ==
  The({IF inputSum.thrown # NoError THEN inputSum.thrown
       ELSE IF inputSum.value < calculateOutputSum(transaction)
         THEN ValidationError("unbalanced inputs and outputs",
                              <<transaction.id, ToString(inputSum.value),
                                ToString(calculateOutputSum(transaction))>>)
       ELSE NoError :
         inputSum \in {calculateInputSum(transaction.inputs, getOutputValue)}})

\* the error thrown for the transaction, NoError when it is balanced
validateTransactionBalance(transaction, getOutputValue) ==
  The({IF inputSum.thrown # NoError THEN inputSum.thrown
       ELSE IF inputSum.value # calculateOutputSum(transaction)
         THEN ValidationError("unbalanced inputs and outputs",
                              <<transaction.id, ToString(inputSum.value),
                                ToString(calculateOutputSum(transaction))>>)
       ELSE NoError :
         inputSum \in {calculateInputSum(transaction.inputs, getOutputValue)}})

\* the loop over the transactions in block order, ended by the first throw
RECURSIVE validateBlockTransactions(_, _)
validateBlockTransactions(block, getOutputValue) ==
  IF block.transactions = <<>> THEN NoError
  ELSE IF Head(block.transactions).inputs = <<>>
    THEN validateBlockTransactions([block EXCEPT !.transactions = Tail(@)],
                                   getOutputValue)
  ELSE The({IF error # NoError THEN error
            ELSE validateBlockTransactions(
                   [block EXCEPT !.transactions = Tail(@)], getOutputValue) :
              error \in {validateTransactionBalance(Head(block.transactions),
                                                    getOutputValue)}})

\* ------------------------------------------------------------------------
\* src/src/services/blockchain.service.ts, lines 71-200: the
\* repository-based BlockchainService
\* ------------------------------------------------------------------------
\* a step of the callback of withTransaction: the tables it leaves, and
\* the error it threw
Applied(t) == [error |-> NoError, tables |-> t]
Thrown(t, error) == [error |-> error, tables |-> t]

\* what the database throws for a violated constraint
DatabaseError == [name |-> "DatabaseError", message |-> "", at |-> <<>>]

KeyOf(input) == <<input.txId, ToString(input.index)>>

\* the closure getOutputValue of processBlock: the value of the output in
\* the first transaction of this block that has the id and an output at
\* the index; the cache only remembers what this search returned
getOutputValue(block) ==
  [input \in {AllInputs(block)[k] : k \in 1..Len(AllInputs(block))} |->
     LET found == {k \in 1..Len(block.transactions) :
                     /\ block.transactions[k].id = input.txId
                     /\ input.index \in
                          0..(Len(block.transactions[k].outputs) - 1)}
     IN IF found # {}
          THEN Returns(block.transactions[CHOOSE k \in found :
                                            \A j \in found : k <= j]
                         .outputs[input.index + 1].value)
        ELSE Throws(ValidationError("Output not found for input reference",
                                    KeyOf(input)))]

\* the loop over the inputs without the test of referencedOutput.isSpent
RECURSIVE MarkInputsIgnoringSpent(_, _, _)
MarkInputsIgnoringSpent(t, inputs, height) ==
  IF inputs = <<>> THEN Applied(t)
  ELSE The({IF referencedOutput = {}
              THEN Thrown(t, ValidationError("Referenced output not found",
                                             KeyOf(Head(inputs))))
            ELSE MarkInputsIgnoringSpent(
                   updateBalance(
                     markOutputAsSpent(t, Head(inputs).txId,
                                       Head(inputs).index, height),
                     The(referencedOutput).address,
                     0 - The(referencedOutput).value),
                   Tail(inputs), height) :
              referencedOutput \in {getOutput(t, Head(inputs).txId,
                                              Head(inputs).index)}})

\* the loop over the inputs of a transaction
RECURSIVE MarkInputs(_, _, _)
MarkInputs(t, inputs, height) ==
  IF inputs = <<>> THEN Applied(t)
  ELSE The({IF referencedOutput = {}
              THEN Thrown(t, ValidationError("Referenced output not found",
                                             KeyOf(Head(inputs))))
            ELSE IF The(referencedOutput).is_spent
              THEN Thrown(t, ValidationError("Output already spent",
                                             KeyOf(Head(inputs))))
            ELSE MarkInputs(
                   updateBalance(
                     markOutputAsSpent(t, Head(inputs).txId,
                                       Head(inputs).index, height),
                     The(referencedOutput).address,
                     0 - The(referencedOutput).value),
                   Tail(inputs), height) :
              referencedOutput \in {getOutput(t, Head(inputs).txId,
                                              Head(inputs).index)}})

\* the loop over the outputs of a transaction, from index i on
RECURSIVE InsertOutputs(_, _, _, _)
InsertOutputs(t, transaction, outputs, i) ==
  IF outputs = <<>> THEN Applied(t)
  ELSE The({IF r.error THEN Thrown(t, DatabaseError)
            ELSE InsertOutputs(
                   updateBalance(r.tables, Head(outputs).address,
                                 Head(outputs).value),
                   transaction, Tail(outputs), i + 1) :
              r \in {insertOutput(t, transaction.id, Head(outputs), i)}})

\* the loop over the transactions of the block
RECURSIVE ProcessTransactions(_, _, _)
ProcessTransactions(t, block, transactions) ==
  IF transactions = <<>> THEN Applied(t)
  ELSE The({IF r.error THEN Thrown(t, DatabaseError)
            ELSE The({IF m.error # NoError THEN m
                      ELSE The({IF o.error # NoError THEN o
                                ELSE ProcessTransactions(o.tables, block,
                                                         Tail(transactions)) :
                                  o \in {InsertOutputs(
                                           m.tables, Head(transactions),
                                           Head(transactions).outputs, 0)}}) :
                        m \in {MarkInputs(r.tables, Head(transactions).inputs,
                                          block.height)}}) :
              r \in {insertTransaction(t, Head(transactions), block.id,
                                       block.height)}})

\* withTransaction: COMMIT what the callback did, or ROLLBACK to the
\* tables before it and rethrow
withTransaction(t, done) ==
  IF done.error # NoError THEN Thrown(t, done.error) ELSE done

BlockchainService_processBlock(t, block) ==
  withTransaction(t,
  IF validateBlockHeight(block, Repository_getCurrentHeight(t)) # OK
    THEN Thrown(t, ValidationError("Invalid block height", <<>>))
  ELSE IF validateBlockHash(block) # OK
    THEN Thrown(t, ValidationError("Invalid block hash", <<>>))
  ELSE IF validateBlockTransactions(block, getOutputValue(block)) # NoError
    THEN Thrown(t, validateBlockTransactions(block, getOutputValue(block)))
  ELSE The({IF r.error THEN Thrown(t, DatabaseError)
            ELSE ProcessTransactions(r.tables, block, block.transactions) :
              r \in {insertBlock(t, block)}}))

\* rollback with the height test `targetHeight > currentHeight`
BlockchainService_rollbackAllowsCurrent(t, targetHeight) ==
  withTransaction(t,
  The({IF targetHeight < 0
         THEN Thrown(t, ValidationError("Target height cannot be negative",
                                        <<>>))
       ELSE IF targetHeight > currentHeight
         THEN Thrown(t, ValidationError("Cannot rollback to height", <<>>))
       ELSE IF currentHeight - targetHeight > 2000
         THEN Thrown(t, ValidationError(
                          "Cannot rollback more than 2000 blocks", <<>>))
       ELSE Applied(recalculateBalances(
                      deleteBlocksAfterHeight(
                        unmarkOutputsSpentAfterHeight(t, targetHeight),
                        targetHeight))) :
         currentHeight \in {Repository_getCurrentHeight(t)}}))

BlockchainService_rollback(t, targetHeight) ==
  withTransaction(t,
  The({IF targetHeight < 0
         THEN Thrown(t, ValidationError("Target height cannot be negative",
                                        <<>>))
       ELSE IF targetHeight >= currentHeight
         THEN Thrown(t, ValidationError("Cannot rollback to height", <<>>))
       ELSE IF currentHeight - targetHeight > 2000
         THEN Thrown(t, ValidationError(
                          "Cannot rollback more than 2000 blocks", <<>>))
       ELSE Applied(recalculateBalances(
                      deleteBlocksAfterHeight(
                        unmarkOutputsSpentAfterHeight(t, targetHeight),
                        targetHeight))) :
         currentHeight \in {Repository_getCurrentHeight(t)}}))

\* ------------------------------------------------------------------------
\* The repository-based service, its calls executed one at a time
\* (SpecRepo): db holds the tables of the repository, ret the error the
\* finished call threw
\* ------------------------------------------------------------------------
\* a transaction without inputs, creating one or two outputs
Creating(id, outputs) == [id |-> id, inputs |-> <<>>, outputs |-> outputs]

RepoCreators ==
  {Creating(id, outputs) :
     id \in {"t1", "t2"},
     outputs \in {<<[address |-> "a", value |-> 1]>>,
                  <<[address |-> "a", value |-> 2]>>,
                  <<[address |-> "a", value |-> 1],
                    [address |-> "b", value |-> 1]>>}}

\* a transaction spending the first output of t1, once, twice or together
\* with the second, into one output to b; its id may be t1 as well
RepoSpenders ==
  [id : TxIds,
   inputs : {<<[txId |-> "t1", index |-> 0]>>,
             <<[txId |-> "t1", index |-> 0], [txId |-> "t1", index |-> 0]>>,
             <<[txId |-> "t1", index |-> 0], [txId |-> "t1", index |-> 1]>>},
   outputs : {<<[address |-> "b", value |-> v]>> : v \in Values}]

\* no transaction, one, or a creator and a spender in either order
RepoTransactionSeqs ==
  {<<>>} \cup {<<x>> : x \in RepoCreators \cup RepoSpenders}
         \cup {<<c, s>> : c \in RepoCreators, s \in RepoSpenders}
         \cup {<<s, c>> : s \in RepoSpenders, c \in RepoCreators}

\* the blocks submitted: all of the next height with their computed hash,
\* and those of at most one creator with any height and the hash of any
RepoBlocks(t) ==
  {Block(calculateBlockHash(Block("", Repository_getCurrentHeight(t) + 1, txs)),
         Repository_getCurrentHeight(t) + 1, txs) : txs \in RepoTransactionSeqs}
    \cup {Block(calculateBlockHash(Block("", g, txs)), h, txs) :
            g \in 1..(MaxHeight + 1), h \in 1..(MaxHeight + 1),
            txs \in {<<>>} \cup {<<c>> : c \in RepoCreators}}

InitRepo ==
  /\ db = EmptyTables
  /\ last = NoCall
  /\ chain = <<>>
  /\ rollbacks = 0
  /\ call = [w \in Workers |-> Idle]
  /\ db0 = EmptyTables
  /\ vin = NoInput
  /\ vout = None
  /\ hout = None
  /\ ret = NoResult
  /\ undone = {}

\* POST /blocks of the repository-based service
RepoProcessBlock(block) ==
  /\ last = NoCall
  /\ \E r \in {BlockchainService_processBlock(db, block)} :
       /\ r.error = NoError => block.height <= MaxHeight
       /\ db' = r.tables
       /\ last' = Call("processBlock", r.error.name, block.height,
                       Repository_getCurrentHeight(db), 0)
       /\ chain' = IF r.error = NoError THEN Append(chain, block) ELSE chain
       /\ ret' = [error |-> r.error]
  /\ vin' = [NoInput EXCEPT !.block = block]
  /\ UNCHANGED <<rollbacks, vout, undone, others>>

\* POST /rollback of the repository-based service
RepoRollback(targetHeight) ==
  /\ last = NoCall
  /\ \E r \in {BlockchainService_rollback(db, targetHeight)} :
       /\ db' = r.tables
       /\ last' = Call("rollback", r.error.name, targetHeight,
                       Repository_getCurrentHeight(db), 0)
       /\ chain' = IF r.error = NoError
                     THEN SubSeq(chain, 1, targetHeight) ELSE chain
       /\ ret' = [error |-> r.error]
  /\ UNCHANGED <<rollbacks, vin, vout, undone, others>>

NextRepo ==
  \/ \E block \in RepoBlocks(db) : RepoProcessBlock(block)
  \/ \E targetHeight \in (0 - 1)..(MaxHeight + 1) : RepoRollback(targetHeight)
  \/ Reply

SpecRepo == InitRepo /\ [][NextRepo]_vars

\* ------------------------------------------------------------------------
\* Properties of SpecRepo
\* ------------------------------------------------------------------------
\* the stored outputs the inputs reference
StoredOutputs(t, inputs) ==
  UNION {getOutput(t, inputs[k].txId, inputs[k].index) : k \in 1..Len(inputs)}

\* every output sent by the transactions, in order
RECURSIVE AllOutputs(_)
AllOutputs(transactions) ==
  IF transactions = <<>> THEN <<>>
  ELSE Head(transactions).outputs \o AllOutputs(Tail(transactions))

\* the block comes next, carries its hash and new transaction ids, and
\* each of its inputs references, once, an output stored by an earlier
\* block and still unspent, every spending transaction being balanced
SpendsEarlierOutputs(t, block) ==
  /\ block.height = Repository_getCurrentHeight(t) + 1
  /\ block.id = calculateBlockHash(block)
  /\ AllInputs(block) # <<>>
  /\ ~Repeats(AllInputs(block))
  /\ ~Repeats(TransactionIdsOf(<<block>>))
  /\ \A k \in 1..Len(block.transactions) :
       /\ ~\E x \in t.transactions : x.id = block.transactions[k].id
       /\ \A i \in 1..Len(block.transactions[k].inputs) :
            \E o \in StoredOutputs(t, <<block.transactions[k].inputs[i]>>) :
              ~o.is_spent
       /\ block.transactions[k].inputs # <<>> =>
            SumValue(StoredOutputs(t, block.transactions[k].inputs))
              = calculateOutputSum(block.transactions[k])

\* C27: a processBlock call of the repository-based service for a block of
\* the next height with a correct hash whose transactions spend unspent
\* outputs of earlier committed blocks, inputs and outputs in balance, is
\* accepted; afterwards the referenced outputs are spent, their addresses
\* are debited by their values and the addresses of the new outputs are
\* credited.
C27_SpendsEarlierOutputs ==
  [][(/\ last = NoCall
      /\ last'.op = "processBlock"
      /\ SpendsEarlierOutputs(db, vin'.block)) =>
       /\ last'.code = OK
       /\ \A o \in StoredOutputs(db', AllInputs(vin'.block)) : o.is_spent
       /\ \A a \in Addresses :
            getBalance(db', a)
              = getBalance(db, a)
                  - SumValue({o \in StoredOutputs(db, AllInputs(vin'.block)) :
                                o.address = a})
                  + SentTo(AllOutputs(vin'.block.transactions), a)]_vars

\* the block comes next and carries its hash, and its one transaction has
\* one input: it references an output that an earlier block stored and a
\* committed block has spent
SpendsSpentOutput(t, block) ==
  /\ block.height = Repository_getCurrentHeight(t) + 1
  /\ block.id = calculateBlockHash(block)
  /\ Len(block.transactions) = 1
  /\ Len(AllInputs(block)) = 1
  /\ \E o \in StoredOutputs(t, AllInputs(block)) : o.is_spent

\* the block comes next and carries its hash, and one of its inputs
\* references an output that is neither stored nor created by the block
SpendsNowhere(t, block) ==
  /\ block.height = Repository_getCurrentHeight(t) + 1
  /\ block.id = calculateBlockHash(block)
  /\ \E k \in 1..Len(AllInputs(block)) :
       /\ StoredOutputs(t, <<AllInputs(block)[k]>>) = {}
       /\ getOutputValue(block)[AllInputs(block)[k]].thrown # NoError

NotFoundMessages ==
  {"Output not found for input reference", "Referenced output not found"}

\* C28: a processBlock call of the repository-based service for a block of
\* the next height with a correct hash is rejected with a ValidationError
\* "already spent" when its input references an output a committed block has
\* spent, and with a ValidationError "not found" when an input references an
\* output that exists nowhere; the tables stay as they were.
C28_SpentOrMissing ==
  [][(last = NoCall /\ last'.op = "processBlock") =>
       /\ SpendsSpentOutput(db, vin'.block) =>
            /\ ret'.error.name = "ValidationError"
            /\ ret'.error.message = "Output already spent"
            /\ db' = db
       /\ SpendsNowhere(db, vin'.block) =>
            /\ ret'.error.name = "ValidationError"
            /\ ret'.error.message \in NotFoundMessages
            /\ db' = db]_vars

\* the outputs of the transactions stored at or below the height
OutputsUpTo(t, height) ==
  {o \in t.outputs :
     \E x \in t.transactions : x.id = o.tx_id /\ x.block_height <= height}

\* C26: after every successful rollback(targetHeight) of the
\* repository-based service the stored outputs are those of the blocks up
\* to targetHeight, every one of them that was spent above targetHeight is
\* unspent, and the balances table is the recomputation from them: one row
\* per address with an unspent output, holding the sum of their values, so
\* that every other address reads as 0.
C26_BalancesRecomputed ==
  [][(last = NoCall /\ last'.op = "rollback" /\ last'.code = OK) =>
       /\ {[o EXCEPT !.is_spent = FALSE, !.spent_in_block_height = {}] :
             o \in db'.outputs}
            = {[o EXCEPT !.is_spent = FALSE, !.spent_in_block_height = {}] :
                 o \in OutputsUpTo(db, last'.arg)}
       /\ \A o \in db.outputs :
            (\E h \in o.spent_in_block_height : h > last'.arg) =>
              \A p \in getOutput(db', o.tx_id, o.idx) :
                ~p.is_spent /\ p.spent_in_block_height = {}
       /\ \A o \in db'.outputs :
            o.is_spent => o \in db.outputs
       /\ \A a \in Addresses :
            getBalance(db', a)
              = SumValue({o \in db'.outputs : ~o.is_spent /\ o.address = a})
       /\ {r.address : r \in db'.balances}
            = {o.address : o \in {p \in db'.outputs : ~p.is_spent}}
       /\ Cardinality(db'.balances)
            = Cardinality({r.address : r \in db'.balances})]_vars

\* a rollback has succeeded and has left a spent output, an unspent one
\* and an address that reads as 0
C26_Witness ==
  /\ last.op = "rollback"
  /\ last.code = OK
  /\ \E o \in db.outputs : o.is_spent
  /\ \E o \in db.outputs : ~o.is_spent
  /\ \E a \in Addresses : getBalance(db, a) = 0
  /\ \E a \in Addresses : getBalance(db, a) > 0

RepeatsTransactionId(t, block) ==
  \/ Repeats(TransactionIdsOf(<<block>>))
  \/ \E k \in 1..Len(block.transactions) :
       \E x \in t.transactions : x.id = block.transactions[k].id

MaxTransactions == 3

BalanceKeys == [txId : {"t0"}, index : {0, 1}]

\* getOutputValue returns 1 or 2 for a key, or throws
BalanceTables ==
  [BalanceKeys ->
     {Returns(v) : v \in Values}
       \cup {Throws(ValidationError("Output not found for input reference",
                                    <<>>))}]

\* no input, one, or both keys; outputs worth 1, 2 or 3 in all
BalanceShapes ==
  [inputs : {<<>>} \cup {<<k>> : k \in BalanceKeys}
                  \cup {<<k, j>> : k \in {x \in BalanceKeys : x.index = 0},
                                   j \in {x \in BalanceKeys : x.index = 1}},
   outputs : {<<[address |-> "a", value |-> v]>> : v \in Values}
               \cup {<<[address |-> "a", value |-> 1],
                       [address |-> "b", value |-> 2]>>}]

\* the blocks of up to MaxTransactions transactions t1, t2, ...
BalanceBlocks ==
  {Block("", 1, [k \in 1..Len(shapes) |->
                   [id |-> "t" \o ToString(k), inputs |-> shapes[k].inputs,
                    outputs |-> shapes[k].outputs]]) :
     shapes \in UNION {[1..n -> BalanceShapes] : n \in 0..MaxTransactions}}

InitBalance ==
  /\ db = EmptyTables
  /\ last = NoCall
  /\ chain = <<>>
  /\ rollbacks = 0
  /\ call = [w \in Workers |-> Idle]
  /\ db0 = EmptyTables
  /\ vin \in [block : BalanceBlocks, getOutputValue : BalanceTables]
  /\ vout = None
  /\ hout = None
  /\ ret = NoResult
  /\ undone = {}

\* the call validateBlockTransactions(block, getOutputValue)
CheckBalance ==
  /\ ret = NoResult
  /\ ret' = [error |-> validateBlockTransactions(vin.block, vin.getOutputValue)]
  /\ UNCHANGED <<db, last, chain, rollbacks, vin, vout, undone, others>>

NextBalance == CheckBalance

SpecBalance == InitBalance /\ [][NextBalance]_vars

\* the values getOutputValue returns for the inputs, and those of the outputs
InputValues(transaction, table) ==
  [i \in 1..Len(transaction.inputs) |-> table[transaction.inputs[i]].value]

OutputValues(transaction) ==
  [i \in 1..Len(transaction.outputs) |-> transaction.outputs[i].value]

Unresolved(transaction, table) ==
  {i \in 1..Len(transaction.inputs) :
     table[transaction.inputs[i]].thrown # NoError}

\* the transactions with inputs whose input values do not add up to their
\* output values, or cannot be added up at all
Offenders(block, table) ==
  {k \in 1..Len(block.transactions) :
     /\ block.transactions[k].inputs # <<>>
     /\ \/ Unresolved(block.transactions[k], table) # {}
        \/ SeqSum(InputValues(block.transactions[k], table))
             # SeqSum(OutputValues(block.transactions[k]))}

\* C29: validateBlockTransactions throws if and only if some transaction
\* with at least one input has a sum of referenced input values different
\* from the sum of its output values (or an input getOutputValue throws
\* for); the error is the one of the first such transaction in block order,
\* taken on its own, and transactions without inputs are skipped.
C29_PerTransactionBalance ==
  ret # NoResult =>
    /\ ret.error # NoError <=> Offenders(vin.block, vin.getOutputValue) # {}
    /\ \A k \in Offenders(vin.block, vin.getOutputValue) :
         (\A j \in Offenders(vin.block, vin.getOutputValue) : k <= j) =>
           ret.error
             = IF Unresolved(vin.block.transactions[k], vin.getOutputValue) = {}
                 THEN ValidationError(
                        "unbalanced inputs and outputs",
                        <<vin.block.transactions[k].id,
                          ToString(SeqSum(InputValues(
                            vin.block.transactions[k], vin.getOutputValue))),
                          ToString(SeqSum(OutputValues(
                            vin.block.transactions[k])))>>)
               ELSE ValidationError("Output not found for input reference",
                                    <<>>)

\* a transaction without inputs was skipped, then one with a surplus of 1
\* raised the error although the next one has a deficit of 1
C29_Witness ==
  /\ ret # NoResult
  /\ Len(vin.block.transactions) = 3
  /\ vin.block.transactions[1].inputs = <<>>
  /\ Offenders(vin.block, vin.getOutputValue) = {2, 3}
  /\ Unresolved(vin.block.transactions[2], vin.getOutputValue) = {}
  /\ Unresolved(vin.block.transactions[3], vin.getOutputValue) = {}
  /\ SeqSum(InputValues(vin.block.transactions[2], vin.getOutputValue))
       = SeqSum(OutputValues(vin.block.transactions[2])) + 1
  /\ SeqSum(InputValues(vin.block.transactions[3], vin.getOutputValue)) + 1
       = SeqSum(OutputValues(vin.block.transactions[3]))
  /\ ret.error.at[1] = "t2"

\* ------------------------------------------------------------------------
\* The repository-based rollback on tall ledgers (SpecTall)
\* ------------------------------------------------------------------------
TallHeight == 2002

\* block 1 creates (t1, 0), worth 1 to a; the blocks above it are empty
TallBlock(h) ==
  The({Block(calculateBlockHash(b), b.height, b.transactions) :
         b \in {Block("", h,
                      IF h = 1
                        THEN <<Creating("t1", <<[address |-> "a",
                                                 value |-> 1]>>)>>
                      ELSE <<>>)}})

\* the tables after processBlock of TallBlock(1), ..., TallBlock(height)
TallTables(height) ==
  [blocks |-> {[id |-> TallBlock(h).id, height |-> h] : h \in 1..height},
   transactions |-> {[id |-> "t1", block_id |-> TallBlock(1).id,
                      block_height |-> 1]},
   outputs |-> {[tx_id |-> "t1", idx |-> 0, address |-> "a", value |-> 1,
                 is_spent |-> FALSE, spent_in_block_height |-> {}]},
   balances |-> {[address |-> "a", balance |-> 1]}]

\* the heights of the ledgers: TallHeight and two below
TallHeights == {TallHeight - 2, TallHeight}

\* the targets: around 0 and around the heights
TallTargets == (0 - 1)..3 \cup (TallHeight - 4)..(TallHeight + 1)

InitTall ==
  /\ \E height \in TallHeights :
       /\ db = TallTables(height)
       /\ db0 = TallTables(height)
       /\ chain = [h \in 1..height |-> TallBlock(h)]
  /\ last = NoCall
  /\ rollbacks = 0
  /\ call = [w \in Workers |-> Idle]
  /\ vin = NoInput
  /\ vout = None
  /\ hout = None
  /\ ret = NoResult
  /\ undone = {}

NextTall ==
  \/ \E targetHeight \in TallTargets : RepoRollback(targetHeight)
  \/ Reply

SpecTall == InitTall /\ [][NextTall]_vars

\* C30: rollback(targetHeight) of the repository-based service throws
\* ValidationError and leaves the tables as they were when targetHeight < 0,
\* when targetHeight >= currentHeight, or when currentHeight - targetHeight
\* > 2000; in every other case it succeeds and leaves the blocks up to
\* targetHeight, and for targetHeight = 0 no block and no balance other than 0.
C30_RollbackGuards ==
  [][(last = NoCall /\ last'.op = "rollback") =>
       IF \/ last'.arg < 0
          \/ last'.arg >= last'.before
          \/ last'.before - last'.arg > 2000
         THEN /\ ret'.error.name = "ValidationError"
              /\ db' = db
       ELSE /\ ret'.error = NoError
            /\ db'.blocks = {b \in db.blocks : b.height <= last'.arg}
            /\ Repository_getCurrentHeight(db') = last'.arg
            /\ last'.arg = 0 =>
                 /\ db'.blocks = {}
                 /\ db'.transactions = {}
                 /\ db'.outputs = {}
                 /\ \A a \in Addresses : getBalance(db', a) = 0]_vars

\* a ledger of height 2000 that held a balance of 1 was rolled back to 0
C30_Witness ==
  /\ last.op = "rollback"
  /\ last.code = OK
  /\ last.arg = 0
  /\ last.before = 2000
  /\ getBalance(db0, "a") = 1
  /\ db.blocks = {}
  /\ getBalance(db, "a") = 0

\* a rollback by 2001 blocks was refused, one by 2000 blocks was performed
C30_TooDeep ==
  /\ last.op = "rollback"
  /\ last.code = "ValidationError"
  /\ last.before - last.arg = 2001

C30_Deepest ==
  /\ last.op = "rollback"
  /\ last.code = OK
  /\ last.before - last.arg = 2000

====
